---------------------------- MODULE Spec2Model ----------------------------
(***************************************************************************)
(* Universe 25: the simulation engine (SimulationEngine) and its seeded    *)
(* position generator (RandomSeeder).                                      *)
(*                                                                         *)
(* Numbers.  The engine computes on JavaScript doubles.  The model keeps   *)
(* them as fixed-point integers:                                           *)
(*   - physiological quantities (age, hunger, energy, stressLevel),       *)
(*     resource amounts, rates and the time scale are in thousandths       *)
(*     (Milli): 100 is 100000, timeScale 0.25 is 250;                      *)
(*   - coordinates and headings are in 1/32 of a unit (PosScale).          *)
(* The model computes exactly on these units; a comment says where a       *)
(* quotient is rounded.  The rounding error of the doubles themselves is   *)
(* not modelled: a sum of steps of 0.2 is the exact sum here, while the    *)
(* engine's differs from it in the last binary places.                     *)
(*                                                                         *)
(* Math.random() is not seeded: each draw is a nondeterministic choice     *)
(* from a small set of outcomes.  RandomSeeder.random() is Mulberry32 on   *)
(* the seed and is computed bit for bit.                                   *)
(***************************************************************************)
EXTENDS Integers, Sequences, FiniteSets, TLC

VARIABLES
    params,       \* SimulationEngine.params (after the constructor's defaults)
    seed,         \* RandomSeeder.seed, modulo 2^32, as <<high 16 bits, low 16 bits>>
    phase,        \* "constructed": initializeEnvironment awaits the fetch; "ready": it ran
    tick,         \* SimulationEngine.tick
    nextId,       \* SimulationEngine.nextId
    agents,       \* SimulationEngine.agents, in storage order
    resources,    \* SimulationEngine.resources, in storage order
    deathStats,   \* SimulationEngine.deathStats
    window,       \* the browser's window.innerWidth and window.innerHeight
    given,        \* the parameters the caller handed to the constructor
    twin,         \* a second engine, built from the same seed and parameters
    driver,       \* startSimulation: isRunning and noPopulationTicks
    last          \* what the last update() did (history, not program state)

vars ==
    <<params, seed, phase, tick, nextId, agents, resources, deathStats, window,
      given, twin, driver, last>>

----------------------------------------------------------------------------
(* Units *)

Milli == 10 ^ 3
PosScale == 2 ^ 5

\* a value in whole units as thousandths / as grid steps
M(n) == n * Milli
P(n) == n * PosScale

Abs(n) == IF n < 0 THEN -n ELSE n
Min(a, b) == IF a < b THEN a ELSE b
Max(a, b) == IF a > b THEN a ELSE b

\* v * timeScale, rounded towards zero (exact for the supported time scales)
Scaled(v, ts) == IF v < 0 THEN -(((-v) * ts) \div Milli) ELSE (v * ts) \div Milli

RECURSIVE ISqrtIn(_, _, _)
ISqrtIn(n, lo, hi) ==
    IF lo >= hi THEN lo
    ELSE LET mid == (lo + hi + 1) \div 2
         IN  IF mid * mid <= n THEN ISqrtIn(n, mid, hi) ELSE ISqrtIn(n, lo, mid - 1)

\* floor of Math.sqrt(n), n < 2^31
ISqrt(n) == ISqrtIn(n, 0, 46340)

\* (dx*dx + dy*dy): the square of the distance the code takes the root of
Dist2(x1, y1, x2, y2) == (x2 - x1) * (x2 - x1) + (y2 - y1) * (y2 - y1)

\* Math.sqrt(dx^2 + dy^2) < r, r in whole units
Within(x1, y1, x2, y2, r) == Dist2(x1, y1, x2, y2) < P(r) * P(r)

----------------------------------------------------------------------------
(* RandomSeeder: Mulberry32 on 32-bit words kept as <<hi, lo>> 16-bit halves *)

Half == 2 ^ 16

Word(n) == <<(n \div Half) % Half, n % Half>>

RECURSIVE BitXor(_, _, _)
BitXor(a, b, n) ==
    IF n = 0 THEN 0
    ELSE (((a % 2) + (b % 2)) % 2) + 2 * BitXor(a \div 2, b \div 2, n - 1)

RECURSIVE BitOr(_, _, _)
BitOr(a, b, n) ==
    IF n = 0 THEN 0
    ELSE (IF a % 2 = 1 \/ b % 2 = 1 THEN 1 ELSE 0) + 2 * BitOr(a \div 2, b \div 2, n - 1)

\* a ^ b
Xor32(a, b) == <<BitXor(a[1], b[1], 16), BitXor(a[2], b[2], 16)>>

\* a | k, k < 2^16
Or32(a, k) == <<a[1], BitOr(a[2], k, 16)>>

\* a >>> k, 0 < k < 16
Shr32(a, k) ==
    <<a[1] \div (2 ^ k), (a[2] \div (2 ^ k)) + (a[1] % (2 ^ k)) * (2 ^ (16 - k))>>

\* (a + b) modulo 2^32
Add32(a, b) ==
    LET lo == a[2] + b[2]
    IN  <<(a[1] + b[1] + (lo \div Half)) % Half, lo % Half>>

\* x * y for 16-bit x, y as <<high 16 bits, low 16 bits>> (bytewise: no overflow)
Mul16(x, y) ==
    LET x1 == x \div 256  x0 == x % 256
        y1 == y \div 256  y0 == y % 256
        m0 == x0 * y0
        m1 == x1 * y0 + x0 * y1
        m2 == x1 * y1
        low == m0 + (m1 % 256) * 256
    IN  <<m2 + (m1 \div 256) + (low \div Half), low % Half>>

\* Math.imul(a, b): the low 32 bits of the product
Imul(a, b) ==
    LET ll == Mul16(a[2], b[2])
    IN  <<(ll[1] + Mul16(a[1], b[2])[2] + Mul16(a[2], b[1])[2]) % Half, ll[2]>>

\* 0x6D2B79F5
Mulberry == <<27947, 31221>>

\* RandomSeeder.constructor: timeComponent * dateComponent
SeedOf(now) ==
    Imul(Word(now.hours * 3600 + now.minutes * 60 + now.seconds),
         Word(now.year * 10000 + now.month * 100 + now.date))

\* RandomSeeder.setTemperature: seed * Math.abs(temperature * 100);
\* temperature is given in hundredths of a degree
SetTemperature(s, temperature) == Imul(s, Word(Abs(temperature)))

\* the seed after setTemperature(undefined): seed * Math.abs(NaN) is NaN
NotANumber == <<-1, -1>>

\* RandomSeeder.random, line by line: t is the seed after the addition
Mix1(t) == Imul(Xor32(t, Shr32(t, 15)), Or32(t, 1))
Mix2(t) == Xor32(t, Add32(t, Imul(Xor32(t, Shr32(t, 7)), Or32(t, 61))))
Mix3(t) == Xor32(t, Shr32(t, 14))

RandomFrom(s1) == [seed |-> s1, value |-> Mix3(Mix2(Mix1(s1)))]

\* RandomSeeder.random: [seed |-> the seed after the call, value |-> the 32-bit
\* numerator of the result over 2^32].  On a NaN seed the sum stays NaN, the
\* bit operations read it as 0 and the result is 0.
Random(s) ==
    IF s = NotANumber THEN [seed |-> NotANumber, value |-> <<0, 0>>]
    ELSE RandomFrom(Add32(s, Mulberry))

InRange(r, min, max) ==
    [seed |-> r.seed, value |-> min + (((max - min) * r.value[1]) \div Half)]

\* RandomSeeder.getRandomInRange on grid coordinates: min + (max - min) * random(),
\* the product taken with the high 16 bits of the draw and rounded down
GetRandomInRange(s, min, max) == InRange(Random(s), min, max)

PositionOf(rx, ry) == [seed |-> ry.seed, x |-> rx.value, y |-> ry.value]

PositionAfter(rx, w, padding) ==
    PositionOf(rx, GetRandomInRange(rx.seed, P(padding), w.innerHeight - P(padding)))

\* RandomSeeder.getRandomPosition: x is drawn before y
GetRandomPosition(s, w, padding) ==
    PositionAfter(GetRandomInRange(s, P(padding), w.innerWidth - P(padding)), w, padding)

----------------------------------------------------------------------------
(* Math.random(): the outcomes the model draws from *)

\* Math.random() < p, p in thousandths: true needs p > 0, false needs p < 1
Chance(p) == {b \in BOOLEAN : (b => p > 0) /\ (~b => p < Milli)}

\* <<Math.cos(angle), Math.sin(angle)>> for angle = Math.random() * 2 * PI
Angles == {<<-1, 0>>}

\* 0.5 + Math.random() * 0.5, in thousandths
SpeedDraws == {500}

\* <<jitter of x, jitter of y>>, each (Math.random() - 0.5) * 0.2, on the grid
Jitters == {<<0, 0>>}

\* <<offsetX, offsetY>>, each (Math.random() - 0.5) * 40, on the grid
Offsets == {<<0, 0>>}

Sexes == {"male", "female"}

----------------------------------------------------------------------------
(* SimulationEngine: data *)

States == {"exploring", "eating", "mating", "resting"}

\* targetX / targetY: null
Null == -(10 ^ 6)

MaxAge == 2000
HungerPerTick == 200
EnergyPerTick == 80
StarvationLevel == 100
StressLimit == 100
GraceTicks == 60

\* the engine as one value: what the methods read and write
Engine ==
    [params |-> params, seed |-> seed, tick |-> tick, nextId |-> nextId,
     agents |-> agents, resources |-> resources, deathStats |-> deathStats,
     window |-> window, matings |-> <<>>, steps |-> <<>>]

\* SimulationEngine.constructor: the defaults it fills in (0, like a missing
\* value, is falsy)
Constructed(p) ==
    [p EXCEPT !.resourceSpots = IF p.resourceSpots = 0 THEN 5 ELSE p.resourceSpots,
              !.resourceRegenerationRate =
                  IF p.resourceRegenerationRate = 0 THEN 100
                  ELSE p.resourceRegenerationRate]

\* a scan that prefers the later of two resources at the same distance
RECURSIVE NearestFromLast(_, _, _, _, _)
NearestFromLast(rs, x, y, k, best) ==
    IF k > Len(rs) THEN best
    ELSE IF rs[k].amount > 0
            /\ (best = 0 \/ Dist2(x, y, rs[k].x, rs[k].y)
                             <= Dist2(x, y, rs[best].x, rs[best].y))
         THEN NearestFromLast(rs, x, y, k + 1, k)
         ELSE NearestFromLast(rs, x, y, k + 1, best)

\* SimulationEngine.findNearestResource: the index of the nearest resource with
\* amount > 0, the first of them at that distance; 0 when there is none
RECURSIVE NearestFrom(_, _, _, _, _)
NearestFrom(rs, x, y, k, best) ==
    IF k > Len(rs) THEN best
    ELSE IF rs[k].amount > 0
            /\ (best = 0 \/ Dist2(x, y, rs[k].x, rs[k].y)
                             < Dist2(x, y, rs[best].x, rs[best].y))
         THEN NearestFrom(rs, x, y, k + 1, k)
         ELSE NearestFrom(rs, x, y, k + 1, best)

FindNearestResource(e, x, y) == NearestFrom(e.resources, x, y, 1, 0)

\* the constructor's resource and agent records
NewResource(p, x, y) ==
    [x |-> x, y |-> y,
     amount |-> p.resourceCapacity \div p.resourceSpots,
     maxAmount |-> p.resourceCapacity \div p.resourceSpots,
     regenerationRate |-> p.resourceRegenerationRate]

\* an agent record with the number of agents alive as its id
NewAgentCounted(e, pa, pb, d, pos, nearest) ==
    [id |-> Len(e.agents),
     x |-> pos.x, y |-> pos.y,
     age |-> 0, hunger |-> M(50), energy |-> M(100),
     state |-> IF nearest # 0 THEN "eating" ELSE "exploring",
     targetX |-> IF nearest # 0 THEN e.resources[nearest].x ELSE Null,
     targetY |-> IF nearest # 0 THEN e.resources[nearest].y ELSE Null,
     stressLevel |-> 0,
     socialConnections |-> {},
     birthTick |-> e.tick,
     parentIds |-> IF pa # 0 /\ pb # 0 THEN <<e.agents[pa].id, e.agents[pb].id>>
                   ELSE <<>>,
     sex |-> d.sex,
     directionX |-> d.angle[1] * P(IF pa # 0 /\ pb # 0 THEN 2 ELSE 1),
     directionY |-> d.angle[2] * P(IF pa # 0 /\ pb # 0 THEN 2 ELSE 1)]

\* createAgent: the agent record, at pos and with the resource it heads for
\* (nearest, 0 for none)
NewAgent(e, pa, pb, d, pos, nearest) ==
    [id |-> e.nextId,
     x |-> pos.x, y |-> pos.y,
     age |-> 0, hunger |-> M(50), energy |-> M(100),
     state |-> IF nearest # 0 THEN "eating" ELSE "exploring",
     targetX |-> IF nearest # 0 THEN e.resources[nearest].x ELSE Null,
     targetY |-> IF nearest # 0 THEN e.resources[nearest].y ELSE Null,
     stressLevel |-> 0,
     socialConnections |-> {},
     birthTick |-> e.tick,
     parentIds |-> IF pa # 0 /\ pb # 0 THEN <<e.agents[pa].id, e.agents[pb].id>>
                   ELSE <<>>,
     sex |-> d.sex,
     directionX |-> d.angle[1] * P(IF pa # 0 /\ pb # 0 THEN 2 ELSE 1),
     directionY |-> d.angle[2] * P(IF pa # 0 /\ pb # 0 THEN 2 ELSE 1)]

\* createAgent: the push, and what the call leaves of the engine
Pushed(e, pos, agent) ==
    [e EXCEPT !.seed = pos.seed, !.nextId = e.nextId + 1,
              !.agents = Append(e.agents, agent)]

CreateAgentAt(e, pa, pb, d, pos) ==
    Pushed(e, pos,
           NewAgent(e, pa, pb, d, pos,
                    IF pa # 0 /\ pb # 0 THEN FindNearestResource(e, pos.x, pos.y)
                    ELSE 0))

\* SimulationEngine.createAgent: the engine after the push.  pa, pb: the
\* parents' indices, or 0, 0.  d = [offset, angle, sex]: its Math.random() draws
CreateAgent(e, pa, pb, d) ==
    CreateAgentAt(e, pa, pb, d,
        IF pa # 0 /\ pb # 0
        THEN [seed |-> e.seed,
              x |-> ((e.agents[pa].x + e.agents[pb].x) \div 2) + d.offset[1],
              y |-> ((e.agents[pa].y + e.agents[pb].y) \div 2) + d.offset[2]]
        ELSE GetRandomPosition(e.seed, e.window, 50))

\* the draws of one createAgent call
BirthDraws(born) ==
    [offset : IF born THEN Offsets ELSE {<<0, 0>>}, angle : Angles, sex : Sexes]

----------------------------------------------------------------------------
(* SimulationEngine: the per-agent steps of update() *)

SetAgent(e, i, a) == [e EXCEPT !.agents[i] = a]

\* the agents other than agent i that are less than r units from it
Nearby(e, i, r) ==
    {j \in 1..Len(e.agents) :
        /\ e.agents[j].id # e.agents[i].id
        /\ Within(e.agents[i].x, e.agents[i].y, e.agents[j].x, e.agents[j].y, r)}

\* a step that gives hunger the rate of energy and energy that of hunger
DecaySwapped(e, i) ==
    LET a == e.agents[i]
        ts == e.params.timeScale
    IN  SetAgent(e, i,
            [a EXCEPT !.age = @ + ts,
                      !.hunger = @ + Scaled(EnergyPerTick, ts),
                      !.energy = Max(0, @ - Scaled(HungerPerTick, ts))])

\* a step in which the agent does not age
DecayAgeless(e, i) ==
    LET a == e.agents[i]
        ts == e.params.timeScale
    IN  SetAgent(e, i,
            [a EXCEPT !.hunger = @ + Scaled(HungerPerTick, ts),
                      !.energy = Max(0, @ - Scaled(EnergyPerTick, ts))])

\* update(): age, hunger and energy of agent i move by one step
Decay(e, i) ==
    LET a == e.agents[i]
        ts == e.params.timeScale
    IN  SetAgent(e, i,
            [a EXCEPT !.age = @ + ts,
                      !.hunger = @ + Scaled(HungerPerTick, ts),
                      !.energy = Max(0, @ - Scaled(EnergyPerTick, ts))])

\* a rest that only makes up for the decay of the tick
RestedIdle(energy) == energy + EnergyPerTick

\* the energy of a resting agent after its turn in updateAgentState
Rested(energy) == energy + M(3)

\* SimulationEngine.updateAgentState
UpdateAgentState(e, i) ==
    LET a0 == e.agents[i]
        a == [a0 EXCEPT !.stressLevel =
                 Min(M(100), @ + Cardinality(Nearby(e, i, 50)) * 10)]
        r == FindNearestResource(e, a.x, a.y)
    IN  IF a.birthTick # 0 /\ e.tick - a.birthTick < GraceTicks
        THEN SetAgent(e, i, a)
        ELSE CASE a.state = "exploring" ->
                    IF a.hunger > M(70)
                    THEN IF r # 0
                         THEN SetAgent(e, i,
                                  [a EXCEPT !.state = "eating",
                                            !.targetX = e.resources[r].x,
                                            !.targetY = e.resources[r].y])
                         ELSE SetAgent(e, i, a)
                    ELSE IF a.energy < M(20)
                    THEN SetAgent(e, i, [a EXCEPT !.state = "resting"])
                    ELSE IF a.hunger < M(50) /\ a.energy > M(50)
                    THEN SetAgent(e, i, [a EXCEPT !.state = "mating"])
                    ELSE SetAgent(e, i, a)
               [] a.state = "eating" ->
                    IF r # 0 /\ Within(a.x, a.y, e.resources[r].x, e.resources[r].y, 5)
                    THEN LET consumed == Min(e.resources[r].amount, M(20))
                             hunger == Max(0, a.hunger - consumed)
                             fed == [a EXCEPT !.hunger = hunger,
                                        !.energy = Min(M(100), @ + (consumed * 8) \div 10)]
                         IN  [e EXCEPT
                                !.resources[r].amount = @ - consumed,
                                !.agents[i] =
                                    IF hunger < M(30)
                                    THEN [fed EXCEPT !.state = "exploring",
                                                     !.targetX = Null,
                                                     !.targetY = Null]
                                    ELSE fed]
                    ELSE SetAgent(e, i, a)
               [] a.state = "resting" ->
                    LET energy == Rested(a.energy)
                    IN  SetAgent(e, i,
                            [a EXCEPT !.energy = energy,
                                      !.state = IF energy > M(80) THEN "exploring"
                                                ELSE "resting"])
               [] a.state = "mating" -> SetAgent(e, i, a)

\* the part of updateAgentMovement that reflects one coordinate at the wall:
\* <<coordinate, direction>> after it
Bounce(c, dir, limit) ==
    IF c <= 0 \/ c >= limit
    THEN <<Max(0, Min(limit, c)), -dir>>
    ELSE <<c, dir>>

\* SimulationEngine.updateAgentMovement: the engines its draws can leave.
\* The quotient dx / distance is taken with the distance rounded down to the
\* grid (exact along an axis).  The jitter added on reflection is drawn as 0.
UpdateAgentMovement(e, i) ==
    LET a == e.agents[i]
        ts == e.params.timeScale
    IN  IF a.state = "resting" THEN {e}
        ELSE IF a.targetX # Null /\ a.targetY # Null
        THEN LET dx == a.targetX - a.x
                 dy == a.targetY - a.y
                 d2 == dx * dx + dy * dy
                 distance == ISqrt(d2)
                 speed == Scaled(P(IF a.state = "eating" THEN 3 ELSE 2), ts)
             IN  IF d2 < P(2) * P(2)
                 THEN {SetAgent(e, i, [a EXCEPT !.targetX = Null, !.targetY = Null])}
                 ELSE {SetAgent(e, i,
                          [a EXCEPT !.x = @ + ((dx * speed) \div distance),
                                    !.y = @ + ((dy * speed) \div distance)])}
        ELSE LET Turned ==
                     (IF FALSE \in Chance(Scaled(50, ts)) THEN {a} ELSE {}) \cup
                     {[a EXCEPT !.directionX = g[1] * Scaled((P(1) * sp) \div Milli, ts),
                                !.directionY = g[2] * Scaled((P(1) * sp) \div Milli, ts)] :
                          g \in IF TRUE \in Chance(Scaled(50, ts)) THEN Angles ELSE {},
                          sp \in SpeedDraws}
                 Moved(b, j) ==
                     LET bx == Bounce(b.x + Scaled(b.directionX + j[1], ts),
                                      b.directionX, e.window.innerWidth)
                         by == Bounce(b.y + Scaled(b.directionY + j[2], ts),
                                      b.directionY, e.window.innerHeight)
                     IN  [b EXCEPT !.x = bx[1], !.directionX = bx[2],
                                   !.y = by[1], !.directionY = by[2]]
             IN  {SetAgent(e, i, Moved(b, j)) : b \in Turned, j \in Jitters}

\* checkMatingCollisions: a parent after the birth of child; o is the other
\* parent's id and r its own nearest resource (0 for none)
Parent(e, a, o, child, r) ==
    [a EXCEPT !.state = IF r # 0 THEN "eating" ELSE "exploring",
              !.socialConnections = @ \cup {o, child},
              !.energy = Max(0, @ - Scaled(M(10), e.params.timeScale)),
              !.targetX = IF r # 0 THEN e.resources[r].x ELSE @,
              !.targetY = IF r # 0 THEN e.resources[r].y ELSE @]

\* checkMatingCollisions: the parents i and j of the agent just pushed onto e1
Paired(e1, i, j) ==
    [e1 EXCEPT
        !.agents[i] = Parent(e1, e1.agents[i], e1.agents[j].id, e1.nextId - 1,
                             FindNearestResource(e1, e1.agents[i].x, e1.agents[i].y)),
        !.agents[j] = Parent(e1, e1.agents[j], e1.agents[i].id, e1.nextId - 1,
                             FindNearestResource(e1, e1.agents[j].x, e1.agents[j].y))]

\* candidates taken by the energy of the agent that looks for a mate
RECURSIVE MatesOfTheStrong(_, _, _)
MatesOfTheStrong(e, i, k) ==
    IF k > Len(e.agents) THEN <<>>
    ELSE LET a == e.agents[i]
             o == e.agents[k]
         IN  IF /\ o.id # a.id
                /\ o.state = "mating"
                /\ o.sex # a.sex
                /\ a.energy > M(30)
                /\ Within(a.x, a.y, o.x, o.y, 30)
             THEN <<k>> \o MatesOfTheStrong(e, i, k + 1)
             ELSE MatesOfTheStrong(e, i, k + 1)

\* candidates of either sex
RECURSIVE MatesOfAnySex(_, _, _)
MatesOfAnySex(e, i, k) ==
    IF k > Len(e.agents) THEN <<>>
    ELSE LET a == e.agents[i]
             o == e.agents[k]
         IN  IF /\ o.id # a.id
                /\ o.state = "mating"
                /\ o.energy > M(30)
                /\ Within(a.x, a.y, o.x, o.y, 30)
             THEN <<k>> \o MatesOfAnySex(e, i, k + 1)
             ELSE MatesOfAnySex(e, i, k + 1)

\* the potentialMates of agent i, in storage order
RECURSIVE MatesFrom(_, _, _)
MatesFrom(e, i, k) ==
    IF k > Len(e.agents) THEN <<>>
    ELSE LET a == e.agents[i]
             o == e.agents[k]
         IN  IF /\ o.id # a.id
                /\ o.state = "mating"
                /\ o.sex # a.sex
                /\ o.energy > M(30)
                /\ Within(a.x, a.y, o.x, o.y, 30)
             THEN <<k>> \o MatesFrom(e, i, k + 1)
             ELSE MatesFrom(e, i, k + 1)

PotentialMates(e, i) == MatesFrom(e, i, 1)

\* history: the mating of agent i with j, as the two are when createAgent is
\* called, and the potentialMates (storage indices) j was taken from
Mating(e, i, j) ==
    [initiator |-> e.agents[i], partner |-> e.agents[j], child |-> e.nextId,
     chosen |-> j, candidates |-> PotentialMates(e, i)]

Logged(e1, m) == [e1 EXCEPT !.matings = Append(@, m)]

\* checkMatingCollisions: agent i and its partner j have an offspring
Mate(e, i, j, d) == Logged(Paired(CreateAgent(e, i, j, d), i, j), Mating(e, i, j))

\* a search for a mate that tires: the agent that stays without offspring and
\* low on energy goes to rest
CheckMatingCollisionsTiring(e, i) ==
    IF e.agents[i].state # "mating" THEN {e}
    ELSE LET mates == PotentialMates(e, i)
             rate == e.params.birthRate
             Tried ==
                 {Mate(e, i, mates[m], d) :
                      m \in {n \in 1..Len(mates) :
                                 rate > 0 /\ (n > 1 => rate < Milli)},
                      d \in BirthDraws(TRUE)}
                 \cup (IF Len(mates) = 0 \/ rate < Milli
                       THEN {IF e.agents[i].energy < M(30)
                             THEN [e EXCEPT !.agents[i].state = "resting"] ELSE e}
                       ELSE {})
         IN  {IF abandon THEN [t EXCEPT !.agents[i].state = "exploring"] ELSE t :
                  t \in Tried,
                  abandon \in Chance(Scaled(5, e.params.timeScale))}

\* SimulationEngine.checkMatingCollisions: the engines its draws can leave.
\* The m-th candidate is the partner when the draws of those before it were
\* not below birthRate and its own was.
CheckMatingCollisions(e, i) ==
    IF e.agents[i].state # "mating" THEN {e}
    ELSE LET mates == PotentialMates(e, i)
             rate == e.params.birthRate
             Tried ==
                 {Mate(e, i, mates[m], d) :
                      m \in {n \in 1..Len(mates) :
                                 rate > 0 /\ (n > 1 => rate < Milli)},
                      d \in BirthDraws(TRUE)}
                 \cup (IF Len(mates) = 0 \/ rate < Milli THEN {e} ELSE {})
         IN  {IF abandon THEN [t EXCEPT !.agents[i].state = "exploring"] ELSE t :
                  t \in Tried,
                  abandon \in Chance(Scaled(5, e.params.timeScale))}

\* consumption that takes the hunger below 0
ConsumeUnclamped(e, i) ==
    LET a == e.agents[i]
        r == FindNearestResource(e, a.x, a.y)
    IN  IF r # 0 /\ Within(a.x, a.y, e.resources[r].x, e.resources[r].y, 5)
        THEN LET consumed == Min(e.resources[r].amount,
                                 Scaled(M(15), e.params.timeScale))
             IN  [e EXCEPT !.resources[r].amount = @ - consumed,
                           !.agents[i].hunger = @ - consumed,
                           !.agents[i].energy = Min(M(100), @ + (consumed * 8) \div 10)]
        ELSE e

\* update(): agent i takes from the nearest resource when it is in reach
Consume(e, i) ==
    LET a == e.agents[i]
        r == FindNearestResource(e, a.x, a.y)
    IN  IF r # 0 /\ Within(a.x, a.y, e.resources[r].x, e.resources[r].y, 5)
        THEN LET consumed == Min(e.resources[r].amount,
                                 Scaled(M(15), e.params.timeScale))
             IN  [e EXCEPT !.resources[r].amount = @ - consumed,
                           !.agents[i].hunger = Max(0, @ - consumed),
                           !.agents[i].energy = Min(M(100), @ + (consumed * 8) \div 10)]
        ELSE e

\* an update() in which stress does not decay
StressKept(e, i) == e

\* update(): the stress of agent i decays
StressDecay(e, i) ==
    IF e.agents[i].stressLevel > 0
    THEN [e EXCEPT !.agents[i].stressLevel =
                       Max(0, @ - Scaled(200, e.params.timeScale))]
    ELSE e

\* the amounts of the resources, in storage order
Amounts(e) == [k \in DOMAIN e.resources |-> e.resources[k].amount]

\* history: the two parents at the end of a checkMatingCollisions of agent i
\* that called createAgent, each with the nearest resource (storage index) it
\* then has; nothing when there was no offspring
Couple(e3, e4, i) ==
    IF Len(e4.matings) = Len(e3.matings) THEN <<>>
    ELSE LET j == e4.matings[Len(e4.matings)].chosen
         IN  <<[agent |-> e4.agents[i],
                nearest |-> FindNearestResource(e4, e4.agents[i].x, e4.agents[i].y)],
               [agent |-> e4.agents[j],
                nearest |-> FindNearestResource(e4, e4.agents[j].x, e4.agents[j].y)]>>

\* update(): the rest of the body of this.agents.forEach for agent i after
\* checkMatingCollisions, with the history of the whole turn: the agent after
\* each call (e1 decay, e2 updateAgentState, e3 updateAgentMovement,
\* e4 checkMatingCollisions), the resources at its start and at its end, the
\* nearest resource (storage index, 0 for none) at its start and as the
\* consumption finds it, with the amount it then holds
Turn(e1, e2, e3, e4, i) ==
    LET e5 == Consume(e4, i)
        e6 == StressDecay(e5, i)
        a == e1.agents[i]
    IN  [e6 EXCEPT !.steps = Append(@,
            [id |-> a.id,
             amounts |-> Amounts(e1),
             nearby |-> Cardinality(Nearby(e1, i, 50)),
             nearest |-> FindNearestResource(e1, a.x, a.y),
             decayed |-> a,
             evaluated |-> e2.agents[i],
             moved |-> e3.agents[i],
             mated |-> e4.agents[i],
             couple |-> Couple(e3, e4, i),
             offered |-> FindNearestResource(e4, e4.agents[i].x, e4.agents[i].y),
             found |-> LET r == FindNearestResource(e4, e4.agents[i].x, e4.agents[i].y)
                       IN  IF r = 0 THEN 0 ELSE e4.resources[r].amount,
             fed |-> e5.agents[i],
             done |-> e6.agents[i],
             left |-> Amounts(e6)])]

\* a turn in which the agent looks for a mate before it moves
UpdateAgentMatesFirst(e, i) ==
    LET e1 == Decay(e, i)
        e2 == UpdateAgentState(e1, i)
    IN  UNION {{Turn(e1, e2, e4, e4, i) : e4 \in UpdateAgentMovement(e3, i)} :
                  e3 \in CheckMatingCollisions(e2, i)}

\* update(): the body of this.agents.forEach for agent i
UpdateAgent(e, i) ==
    LET e1 == Decay(e, i)
        e2 == UpdateAgentState(e1, i)
    IN  UNION {{Turn(e1, e2, e3, e4, i) : e4 \in CheckMatingCollisions(e3, i)} :
                  e3 \in UpdateAgentMovement(e2, i)}

\* the agents i..n taken from the last to the first
RECURSIVE ForEachAgentBackwards(_, _, _)
ForEachAgentBackwards(e, i, n) ==
    IF i > n THEN {e}
    ELSE UNION {ForEachAgentBackwards(e2, i, n - 1) : e2 \in UpdateAgent(e, n)}

\* a loop that goes on to the agents pushed while it runs
RECURSIVE ForEachAgentAndBorn(_, _, _)
ForEachAgentAndBorn(e, i, n) ==
    IF i > Len(e.agents) THEN {e}
    ELSE UNION {ForEachAgentAndBorn(e2, i + 1, n) : e2 \in UpdateAgent(e, i)}

\* this.agents.forEach over the agents i..n (those born meanwhile are not visited)
RECURSIVE ForEachAgent(_, _, _)
ForEachAgent(e, i, n) ==
    IF i > n THEN {e}
    ELSE UNION {ForEachAgent(e2, i + 1, n) : e2 \in UpdateAgent(e, i)}

----------------------------------------------------------------------------
(* SimulationEngine: update() *)

\* regeneration that forgets the capacity of the resource
RECURSIVE RegenerateUncapped(_, _)
RegenerateUncapped(e, k) ==
    IF k > Len(e.resources) THEN e
    ELSE RegenerateUncapped(
             [e EXCEPT !.resources[k].amount =
                 e.resources[k].amount
                     + Scaled(e.resources[k].regenerationRate * 3, e.params.timeScale)],
             k + 1)

\* update(): this.resources.forEach from resource k on
RECURSIVE RegenerateFrom(_, _)
RegenerateFrom(e, k) ==
    IF k > Len(e.resources) THEN e
    ELSE RegenerateFrom(
             [e EXCEPT !.resources[k].amount =
                 Min(e.resources[k].maxAmount,
                     e.resources[k].amount
                         + Scaled(e.resources[k].regenerationRate * 3,
                                  e.params.timeScale))],
             k + 1)

\* update(): every resource regenerates
Regenerate(e) == RegenerateFrom(e, 1)

\* a deadAgents filter that overlooks starvation
IsDeadUnstarved(a) ==
    \/ a.age >= M(MaxAge)
    \/ a.stressLevel >= M(StressLimit)

\* update(): the filter that builds deadAgents
IsDead(a) ==
    \/ a.age >= M(MaxAge)
    \/ a.hunger >= M(StarvationLevel)
    \/ a.stressLevel >= M(StressLimit)

\* a filter that keeps the agents that are exactly at a limit
SurvivesAtLimit(a) ==
    /\ a.age <= M(MaxAge)
    /\ a.hunger <= M(StarvationLevel)
    /\ a.stressLevel <= M(StressLimit)

\* update(): the filter that keeps the agents of the next tick
Survives(a) ==
    /\ a.age < M(MaxAge)
    /\ a.hunger < M(StarvationLevel)
    /\ a.stressLevel < M(StressLimit)

\* a total that counts the deaths of this sweep only
TotalOfThisSweep(e, kept) == Len(e.agents) - Len(kept)

\* update(): deathStats.total after the sweep
Total(e, kept) == e.nextId - Len(kept)

\* a sweep that counts one cause for each dead agent: the first it meets
SweepOneCause(e) ==
    LET dead == SelectSeq(e.agents, IsDead)
        kept == SelectSeq(e.agents, Survives)
        Starved(a) == a.hunger >= M(StarvationLevel)
        Aged(a) == ~Starved(a) /\ a.age >= M(MaxAge)
        Stressed(a) == ~Starved(a) /\ ~Aged(a) /\ a.stressLevel >= M(StressLimit)
    IN  [e EXCEPT
            !.agents = kept,
            !.deathStats =
                [starvation |-> @.starvation + Len(SelectSeq(dead, Starved)),
                 oldAge |-> @.oldAge + Len(SelectSeq(dead, Aged)),
                 stress |-> @.stress + Len(SelectSeq(dead, Stressed)),
                 total |-> Total(e, kept)]]

\* update(): the mortality sweep
Sweep(e) ==
    LET dead == SelectSeq(e.agents, IsDead)
        kept == SelectSeq(e.agents, Survives)
        Starved(a) == a.hunger >= M(StarvationLevel)
        Aged(a) == a.age >= M(MaxAge)
        Stressed(a) == a.stressLevel >= M(StressLimit)
    IN  [e EXCEPT
            !.agents = kept,
            !.deathStats =
                [starvation |-> @.starvation + Len(SelectSeq(dead, Starved)),
                 oldAge |-> @.oldAge + Len(SelectSeq(dead, Aged)),
                 stress |-> @.stress + Len(SelectSeq(dead, Stressed)),
                 total |-> Total(e, kept)]]

Ids(as) == {as[k].id : k \in 1..Len(as)}

\* the agents the sweep's deadAgents filter selects, with the causes it counts
Casualties(as) ==
    {[id |-> as[k].id,
      starved |-> as[k].hunger >= M(StarvationLevel),
      aged |-> as[k].age >= M(MaxAge),
      stressed |-> as[k].stressLevel >= M(StressLimit)] :
        k \in {n \in 1..Len(as) : IsDead(as[n])}}

\* the engines one update() can leave, each with the agents as the mortality
\* sweep found them
Updates(e) ==
    {[after |-> Sweep(e2), swept |-> e2.agents] :
        e2 \in ForEachAgent(Regenerate([e EXCEPT !.tick = @ + 1, !.matings = <<>>, !.steps = <<>>]),
                            1, Len(e.agents))}

\* SimulationEngine.getStats: the counts it reports
GetStats(e) ==
    [population |-> Len(e.agents),
     tick |-> e.tick,
     births |-> e.nextId,
     deaths |-> e.deathStats]

----------------------------------------------------------------------------
(* Bounds *)

\* update() calls in one run of the model
MaxUpdates == 3

\* agents alive at once in one run of the model
MaxPopulation == 4

\* update() calls in a run that keeps the history of the turns
TurnUpdates == 2

\* update() calls in the run of the lone agent
StarveUpdates == 101

\* update() calls of each of two engines run side by side
TwinUpdates == 2

\* update() calls on the agents that are out to mate
MatingUpdates == 1

\* update() calls of an engine whose collaborators write to what they are given
QueryUpdates == 1

\* update() calls from the last tick of the initial population on
ExtinctUpdates == 3

----------------------------------------------------------------------------
(* Actions *)

Store(e) ==
    /\ params' = e.params
    /\ seed' = e.seed
    /\ tick' = e.tick
    /\ nextId' = e.nextId
    /\ agents' = e.agents
    /\ resources' = e.resources
    /\ deathStats' = e.deathStats
    /\ window' = e.window

\* SimulationEngine.update
Update ==
    /\ last.updates < last.budget
    /\ \E u \in Updates(Engine) :
          /\ Len(u.swept) <= MaxPopulation
          /\ Store(u.after)
          /\ last' = [last EXCEPT !.op = "update",
                                  !.updates = @ + 1,
                                  !.before = Ids(agents),
                                  !.born = u.after.nextId - nextId,
                                  !.dead = Casualties(u.swept),
                                  !.matings = u.after.matings]
    /\ UNCHANGED <<phase, given, twin, driver>>

\* SimulationEngine.update, with the history of the turns its agents took
UpdateTurns ==
    /\ last.updates < last.budget
    /\ \E u \in Updates(Engine) :
          /\ Len(u.swept) <= MaxPopulation
          /\ Store(u.after)
          /\ last' = [last EXCEPT !.op = "update",
                                  !.updates = @ + 1,
                                  !.before = Ids(agents),
                                  !.born = u.after.nextId - nextId,
                                  !.dead = Casualties(u.swept),
                                  !.matings = u.after.matings,
                                  !.steps = u.after.steps]
    /\ UNCHANGED <<phase, given, twin, driver>>

\* initializeResources: one resource per spot, each at the next seeded position
RECURSIVE InitializeResources(_, _)
InitializeResources(e, i) ==
    IF i >= e.params.resourceSpots THEN e
    ELSE LET pos == GetRandomPosition(e.seed, e.window, 50)
         IN  InitializeResources(
                 [e EXCEPT !.seed = pos.seed,
                           !.resources = Append(@, NewResource(e.params, pos.x, pos.y))],
                 i + 1)

\* initializeAgents: the engines the draws of its createAgent calls can leave
RECURSIVE InitializeAgents(_, _)
InitializeAgents(e, i) ==
    IF i >= e.params.initialPopulation THEN {e}
    ELSE UNION {InitializeAgents(CreateAgent(e, 0, 0, d), i + 1) :
                   d \in BirthDraws(FALSE)}

\* the answers of the temperature service, in hundredths of a degree
Temperatures == {1250, -300}

\* how the fetch of initializeEnvironment ends.  "ok": data.current.temperature_2m
\* is a number.  "failed": fetch rejects.  "malformed": response.json() throws, or
\* data has no current.  "undefined": data.current has no temperature_2m.
Fetches ==
    {[outcome |-> "ok", temperature |-> t] : t \in Temperatures}
        \cup {[outcome |-> o, temperature |-> 0] : o \in {"failed", "malformed", "undefined"}}

\* a seed folded twice
SeededTwice(s, f) ==
    CASE f.outcome = "ok" -> SetTemperature(SetTemperature(s, f.temperature), f.temperature)
      [] f.outcome = "undefined" -> NotANumber
      [] OTHER -> s

\* initializeEnvironment: the seed when the try block is left
Seeded(s, f) ==
    CASE f.outcome = "ok" -> SetTemperature(s, f.temperature)
      [] f.outcome = "undefined" -> NotANumber
      [] OTHER -> s

\* initializeEnvironment after the try block: the engines it can leave
Initialized(e) == InitializeAgents(InitializeResources(e, 0), 0)

\* initializeEnvironment resumes after the fetch: with a temperature, or
\* with the fetch (or the reading of its answer) having thrown
InitializeEnvironment ==
    /\ phase = "constructed"
    /\ \E f \in Fetches :
          /\ \E e \in Initialized([Engine EXCEPT !.seed = Seeded(seed, f)]) : Store(e)
          /\ last' = [last EXCEPT !.op = "initialize", !.fetch = f, !.seed0 = seed,
                                  !.settled = last.updates]
    /\ phase' = "ready"
    /\ UNCHANGED <<given, twin, driver>>

----------------------------------------------------------------------------
(* The engine from its construction *)

\* new Date() at construction
Clocks ==
    {[year |-> 2025, month |-> 2, date |-> 14, hours |-> 9, minutes |-> 30, seconds |-> 5],
     [year |-> 2025, month |-> 2, date |-> 14, hours |-> 21, minutes |-> 4, seconds |-> 47]}

Windows ==
    {[innerWidth |-> P(110), innerHeight |-> P(110)],
     [innerWidth |-> P(400), innerHeight |-> P(300)]}

SupportedTimeScales == {250, 500, 1000, 2000, 4000}

\* parameters with a count that is not positive: the constructor takes any
\* number
NonPositiveConfigurations ==
    {p \in [initialPopulation : {-1, 0, 2},
            resourceCapacity : {M(100)},
            birthRate : {500},
            timeScale : {Milli},
            resourceSpots : {-1, 0, 2},
            resourceRegenerationRate : {400}] :
        p.initialPopulation <= 0 \/ p.resourceSpots <= 0}

\* the parameters handed to the constructor
Configurations ==
    [initialPopulation : {2},
     resourceCapacity : {M(100)},
     birthRate : {500},
     timeScale : SupportedTimeScales,
     resourceSpots : {2},
     resourceRegenerationRate : {0, 400}]
        \cup NonPositiveConfigurations

NoDeaths == [starvation |-> 0, oldAge |-> 0, stress |-> 0, total |-> 0]

\* no update() yet: n are allowed
Fresh(n) ==
    [op |-> "new", budget |-> n, updates |-> 0, before |-> {}, born |-> 0, dead |-> {},
     matings |-> <<>>, steps |-> <<>>, found |-> 0, settled |-> 0,
     fetch |-> [outcome |-> "pending", temperature |-> 0],
     seed0 |-> <<0, 0>>]

NoTwin == [phase |-> "none"]

\* no startSimulation: the engine is called directly
NoDriver == [isRunning |-> FALSE, noPopulationTicks |-> 0]

Init ==
    /\ given \in Configurations
    /\ params = Constructed(given)
    /\ twin = NoTwin
    /\ driver = NoDriver
    /\ seed \in {SeedOf(now) : now \in Clocks}
    /\ window \in Windows
    /\ phase = "constructed"
    /\ tick = 0
    /\ nextId = 0
    /\ agents = <<>>
    /\ resources = <<>>
    /\ deathStats = NoDeaths
    /\ last = Fresh(MaxUpdates)

Next == InitializeEnvironment \/ Update

Spec == Init /\ [][Next]_vars

----------------------------------------------------------------------------
(* The engine at the tick in which its initial population, 100 agents, died *)
(* of old age.  A 400 x 300 window with two resources 3 units apart, and    *)
(* two agents born in the run, the last two agents created.                 *)

RunWindow == [innerWidth |-> P(400), innerHeight |-> P(300)]

\* where the two resources are, and where agents stand
SpotA == <<P(101), P(100)>>
SpotB == <<P(104), P(100)>>
Near == <<P(100), P(100)>>    \* 1 unit from SpotA, 4 from SpotB
Beside == <<P(101), P(102)>>  \* 2 units from SpotA, more than 3 from SpotB
Away == <<P(250), P(200)>>    \* more than 50 units from everything

RunConfigurations ==
    [initialPopulation : {100},
     resourceCapacity : {M(500)},
     birthRate : {500},
     timeScale : SupportedTimeScales,
     resourceSpots : {2},
     resourceRegenerationRate : {0}]

\* amounts left in <<the resource at SpotA, the resource at SpotB>>
Levels == {<<0, M(190)>>, <<M(250), M(250)>>}

RunResources(p, level) ==
    <<[NewResource(p, SpotA[1], SpotA[2]) EXCEPT !.amount = level[1]],
      [NewResource(p, SpotB[1], SpotB[2]) EXCEPT !.amount = level[2]]>>

\* the tick in which an agent created at tick 0 reaches MaxAge
LastTick(ts) == M(MaxAge) \div ts

\* the most stress an update() leaves an agent with
Strained(ts) == M(StressLimit) - Scaled(200, ts)

\* what an agent can have come to, by the time scale of the run: young ones
\* 100 ticks old, old ones born in the first and the second tick of the run
Conditions(ts) ==
    {[state |-> "exploring", age |-> 100 * ts, hunger |-> M(10), energy |-> M(90), stressLevel |-> 0],
     [state |-> "mating", age |-> 100 * ts, hunger |-> M(20), energy |-> M(60), stressLevel |-> 0],
     [state |-> "exploring", age |-> 100 * ts, hunger |-> M(80), energy |-> M(50), stressLevel |-> 0],
     [state |-> "eating", age |-> 100 * ts, hunger |-> M(60), energy |-> M(40), stressLevel |-> 0],
     [state |-> "exploring", age |-> 100 * ts, hunger |-> M(40), energy |-> M(19), stressLevel |-> 0],
     [state |-> "resting", age |-> 100 * ts, hunger |-> M(30), energy |-> M(75), stressLevel |-> 0],
     [state |-> "exploring", age |-> M(MaxAge) - ts, hunger |-> M(40), energy |-> M(60), stressLevel |-> 0],
     [state |-> "exploring", age |-> M(MaxAge) - 2 * ts, hunger |-> M(40), energy |-> M(60), stressLevel |-> 0],
     [state |-> "exploring", age |-> 100 * ts,
      hunger |-> M(StarvationLevel) - Scaled(HungerPerTick, ts), energy |-> M(60), stressLevel |-> 0],
     [state |-> "mating", age |-> M(MaxAge) - ts,
      hunger |-> M(StarvationLevel) - Scaled(HungerPerTick, ts), energy |-> M(60),
      stressLevel |-> Strained(ts)]}

\* an agent born in the run, in condition c at point at
RunAgent(id, sex, at, c, ts) ==
    [id |-> id, x |-> at[1], y |-> at[2],
     age |-> c.age, hunger |-> c.hunger, energy |-> c.energy, state |-> c.state,
     targetX |-> IF c.state = "eating" THEN SpotA[1] ELSE Null,
     targetY |-> IF c.state = "eating" THEN SpotA[2] ELSE Null,
     stressLevel |-> c.stressLevel,
     socialConnections |-> {},
     birthTick |-> LastTick(ts) - (c.age \div ts),
     parentIds |-> <<0, 1>>,
     sex |-> sex,
     directionX |-> 0,
     directionY |-> P(1)]

\* the companion: a young agent that matters as neighbour, partner or competitor
Companions(ts) ==
    {c \in Conditions(ts) :
        c.age = 100 * ts /\ c.hunger < M(50) /\ (c.state = "mating" \/ c.energy < M(20))}

\* the other agent: in any condition, beside the resources or far from all
Placed(ts) ==
    {v \in [c : Conditions(ts), at : {Near, Away}, sex : Sexes] :
        v.c.state # "mating" => v.sex = "female"}

\* this.agents keeps the order of creation: the earlier born comes first
RunAgents(ts) ==
    LET Pairs ==
            {<<RunAgent(100, v.sex, v.at, v.c, ts), RunAgent(101, "male", Beside, m, ts)>> :
                 v \in Placed(ts), m \in Companions(ts)}
            \cup
            {<<RunAgent(100, "male", Beside, m, ts), RunAgent(101, v.sex, v.at, v.c, ts)>> :
                 v \in Placed(ts), m \in Companions(ts)}
    IN  {pair \in Pairs : pair[1].birthTick <= pair[2].birthTick}

\* the engine of this run, with n update() calls to come
RunStart(n) ==
    /\ given \in RunConfigurations
    /\ params = Constructed(given)
    /\ twin = NoTwin
    /\ driver = NoDriver
    /\ seed = SeedOf(CHOOSE now \in Clocks : TRUE)
    /\ window = RunWindow
    /\ phase = "ready"
    /\ tick = LastTick(params.timeScale)
    /\ nextId = 102
    /\ \E level \in Levels : resources = RunResources(params, level)
    /\ agents \in RunAgents(params.timeScale)
    /\ deathStats = [starvation |-> 0, oldAge |-> 100, stress |-> 0, total |-> 100]
    /\ last = Fresh(n)

InitRun == RunStart(MaxUpdates)

NextRun == Update

SpecRun == InitRun /\ [][NextRun]_vars

\* the same run, with the history of the turns
InitTurn == RunStart(TurnUpdates)

SpecTurn == InitTurn /\ [][UpdateTurns]_vars

----------------------------------------------------------------------------
(* A lone agent, the whole initial population, 150 ticks into a run at time  *)
(* scale 1 in which it has not eaten: hunger 50 + 150 * 0.2, energy          *)
(* 100 - 150 * 0.08.  Either the one resource holds nothing (capacity 0) and *)
(* the agent wanders, or it is more than 600 units away and the agent has    *)
(* headed for it since its hunger passed 70.                                 *)

StarveWindow == [innerWidth |-> P(800), innerHeight |-> P(600)]

Far == <<P(750), P(550)>>

StarveConfigurations ==
    [initialPopulation : {1},
     resourceCapacity : {0, M(100)},
     birthRate : {500},
     timeScale : {Milli},
     resourceSpots : {1},
     resourceRegenerationRate : {100}]

LoneAgent(p, at, dir, sex) ==
    [id |-> 0, x |-> at[1], y |-> at[2],
     age |-> 150 * p.timeScale,
     hunger |-> M(50) + 150 * Scaled(HungerPerTick, p.timeScale),
     energy |-> M(100) - 150 * Scaled(EnergyPerTick, p.timeScale),
     state |-> IF p.resourceCapacity > 0 THEN "eating" ELSE "exploring",
     targetX |-> IF p.resourceCapacity > 0 THEN Far[1] ELSE Null,
     targetY |-> IF p.resourceCapacity > 0 THEN Far[2] ELSE Null,
     stressLevel |-> 0,
     socialConnections |-> {},
     birthTick |-> 0,
     parentIds |-> <<>>,
     sex |-> sex,
     directionX |-> dir[1],
     directionY |-> dir[2]]

\* the engine of the lone agent, with n update() calls to come
StarveStart(n) ==
    /\ given \in StarveConfigurations
    /\ params = Constructed(given)
    /\ twin = NoTwin
    /\ driver = NoDriver
    /\ seed = SeedOf(CHOOSE now \in Clocks : TRUE)
    /\ window = StarveWindow
    /\ phase = "ready"
    /\ tick = 150
    /\ nextId = 1
    /\ resources = <<NewResource(params, Far[1], Far[2])>>
    /\ \E at \in {<<P(100), P(100)>>, <<P(60), P(300)>>},
          dir \in {<<-P(1), 0>>, <<0, P(1) \div 2>>}, sex \in Sexes :
          agents = <<LoneAgent(params, at, dir, sex)>>
    /\ deathStats = NoDeaths
    /\ last = Fresh(n)

InitStarve == StarveStart(StarveUpdates)

NextStarve == Update

SpecStarve == InitStarve /\ [][NextStarve]_vars

----------------------------------------------------------------------------
(* Two engines constructed in the same second from the same parameters, and *)
(* answered the same temperature: the same seed and the same configuration. *)
(* Each makes its own Math.random() draws.                                  *)

TwinConfigurations ==
    [initialPopulation : {2},
     resourceCapacity : {M(100)},
     birthRate : {500},
     timeScale : {500, 1000, 2000},
     resourceSpots : {1},
     resourceRegenerationRate : {100}]

InitTwin ==
    /\ given \in TwinConfigurations
    /\ params = Constructed(given)
    /\ seed \in {SeedOf(now) : now \in Clocks}
    /\ window \in Windows
    /\ phase = "constructed"
    /\ tick = 0
    /\ nextId = 0
    /\ agents = <<>>
    /\ resources = <<>>
    /\ deathStats = NoDeaths
    /\ twin = [phase |-> "constructed", e |-> Engine]
    /\ driver = NoDriver
    /\ last = Fresh(TwinUpdates)

\* initializeEnvironment in both engines, the fetch answered alike
TwinInitializeEnvironment ==
    /\ phase = "constructed" /\ twin.phase = "constructed"
    /\ \E f \in Fetches :
          /\ \E e1 \in Initialized([Engine EXCEPT !.seed = Seeded(seed, f)]),
                e2 \in Initialized([twin.e EXCEPT !.seed = Seeded(seed, f)]) :
                /\ Store(e1)
                /\ twin' = [phase |-> "ready", e |-> e2]
          /\ last' = [last EXCEPT !.op = "initialize", !.fetch = f, !.seed0 = seed]
    /\ phase' = "ready"
    /\ UNCHANGED <<given, driver>>

\* update() in both engines
TwinUpdate ==
    /\ phase = "ready" /\ twin.phase = "ready"
    /\ last.updates < last.budget
    /\ \E u1 \in Updates(Engine), u2 \in Updates(twin.e) :
          /\ Len(u1.swept) <= MaxPopulation /\ Len(u2.swept) <= MaxPopulation
          /\ Store(u1.after)
          /\ twin' = [twin EXCEPT !.e = [u2.after EXCEPT !.matings = <<>>, !.steps = <<>>]]
          /\ last' = [last EXCEPT !.op = "update",
                                  !.updates = @ + 1,
                                  !.before = Ids(agents),
                                  !.born = u1.after.nextId - nextId,
                                  !.dead = Casualties(u1.swept),
                                  !.matings = u1.after.matings]
    /\ UNCHANGED <<phase, given, driver>>

NextTwin == TwinInitializeEnvironment \/ TwinUpdate

SpecTwin == InitTwin /\ [][NextTwin]_vars

----------------------------------------------------------------------------
(* The initial population, two or three agents, some hundred ticks into a   *)
(* run at time scale 1 with one resource of capacity 100, which an agent    *)
(* within reach has eaten from in the tick before.  An agent is out to mate *)
(* or about to be; it has been so for a while and is short of energy, or it *)
(* has eaten of late; or it has given up mating in the tick before, hungry   *)
(* and short of energy, far from the resource.                               *)

MatingConfigurations ==
    [initialPopulation : {2, 3},
     resourceCapacity : {M(100)},
     birthRate : {500, Milli},
     timeScale : {Milli},
     resourceSpots : {1},
     resourceRegenerationRate : {0}]

\* the ticks gone: the initial agents are as many ticks old
MatingTicks == {450, (M(MaxAge) \div Milli) - 1}

\* what is left in the resource
MatingLevels == {0, M(40)}

Brink == <<P(101), P(209) \div 2>>  \* 4.5 units from SpotA

\* an agent that entered 'mating' with hunger under 50 and energy over 50 has
\* energy > 50 - 0.8 * hunger for as long as it stays in it: the weak one has
\* come within reach in the last tick, eating then if there was to eat
Stances ==
    {[state |-> "mating", energy |-> M(60), hunger |-> M(20), at |-> Near, heading |-> <<0, P(1)>>],
     [state |-> "mating", energy |-> M(60), hunger |-> M(20), at |-> Beside, heading |-> <<0, P(1)>>],
     [state |-> "mating", energy |-> M(29), hunger |-> M(70), at |-> Brink, heading |-> <<0, -P(1)>>],
     [state |-> "mating", energy |-> M(60), hunger |-> M(20), at |-> Away, heading |-> <<0, P(1)>>],
     [state |-> "exploring", energy |-> M(60), hunger |-> M(20), at |-> Near, heading |-> <<0, P(1)>>],
     [state |-> "exploring", energy |-> M(19), hunger |-> M(80), at |-> Away, heading |-> <<0, P(1)>>]}

\* agent id of the initial population in stance st, t ticks into the run
MatingAgent(id, sex, st, t, ts) ==
    [id |-> id, x |-> st.at[1], y |-> st.at[2],
     age |-> t * ts, hunger |-> st.hunger, energy |-> st.energy, state |-> st.state,
     targetX |-> Null,
     targetY |-> Null,
     stressLevel |-> 0,
     socialConnections |-> {},
     birthTick |-> 0,
     parentIds |-> <<>>,
     sex |-> sex,
     directionX |-> st.heading[1],
     directionY |-> st.heading[2]]

\* the third agent of a population of three
Thirds == {st \in Stances : st.state = "mating" /\ st.at = Beside}

MatingAgents(n, t, ts) ==
    {<<MatingAgent(0, v[1].sex, v[1].st, t, ts), MatingAgent(1, v[2].sex, v[2].st, t, ts)>>
         \o (IF n = 3 THEN <<MatingAgent(2, w.sex, w.st, t, ts)>> ELSE <<>>) :
         v \in [1..2 -> [sex : Sexes, st : Stances]], w \in [sex : Sexes, st : Thirds]}

\* the engine of these agents, with n update() calls to come
MatingStart(n) ==
    /\ given \in MatingConfigurations
    /\ params = Constructed(given)
    /\ twin = NoTwin
    /\ driver = NoDriver
    /\ seed = SeedOf(CHOOSE now \in Clocks : TRUE)
    /\ window = RunWindow
    /\ phase = "ready"
    /\ tick \in MatingTicks
    /\ nextId = params.initialPopulation
    /\ \E level \in MatingLevels :
          resources = <<[NewResource(params, SpotA[1], SpotA[2]) EXCEPT !.amount = level]>>
    /\ agents \in MatingAgents(params.initialPopulation, tick, params.timeScale)
    /\ deathStats = NoDeaths
    /\ last = Fresh(n)

InitMating == MatingStart(MatingUpdates)

NextMating == Update

SpecMating == InitMating /\ [][NextMating]_vars

\* the same run, with the history of the turns
SpecMatingTurn == InitMating /\ [][UpdateTurns]_vars

\* update() calls in the run of a population of two
PairUpdates == 1

\* the populations of two of these, with the history of the turns
InitPair == MatingStart(PairUpdates) /\ params.initialPopulation = 2

SpecPair == InitPair /\ [][UpdateTurns]_vars

\* a population of two in the tick before it is 2000 ticks old: the update
\* that comes removes both, and leaves their offspring if they had one
InitExtinct ==
    /\ MatingStart(ExtinctUpdates)
    /\ params.initialPopulation = 2
    /\ tick * params.timeScale = M(MaxAge) - params.timeScale

NextExtinct == Update

SpecExtinct == InitExtinct /\ [][NextExtinct]_vars

----------------------------------------------------------------------------
(* The engine and a collaborator that queries it.  getAgents returns        *)
(* this.agents, getResources this.resources, and getStats an object whose   *)
(* deaths is this.deathStats: what the collaborator holds is the engine's   *)
(* own array or object, and an assignment through it is one to the engine's *)
(* field.  last.op is the getter whose value the collaborator holds.  The   *)
(* engine is that of the lone agent.                                        *)

\* SimulationEngine.getAgents: the engine is left as it is
GetAgents ==
    /\ phase = "ready"
    /\ last' = [last EXCEPT !.op = "getAgents"]
    /\ UNCHANGED <<params, seed, tick, nextId, agents, resources, deathStats, window,
                   phase, given, twin, driver>>

\* SimulationEngine.getResources
GetResources ==
    /\ phase = "ready"
    /\ last' = [last EXCEPT !.op = "getResources"]
    /\ UNCHANGED <<params, seed, tick, nextId, agents, resources, deathStats, window,
                   phase, given, twin, driver>>

\* SimulationEngine.getStats
GetStatsCalled ==
    /\ phase = "ready"
    /\ last' = [last EXCEPT !.op = "getStats"]
    /\ UNCHANGED <<params, seed, tick, nextId, agents, resources, deathStats, window,
                   phase, given, twin, driver>>

\* what a collaborator assigns to a number it was given
Written == {0, M(7)}

\* the collaborator assigns to a field of an element of the array getAgents
\* returned
WriteToAgent ==
    /\ last.op = "getAgents"
    /\ \E k \in 1..Len(agents), v \in Written :
          agents' = [agents EXCEPT ![k].hunger = v]
    /\ last' = [last EXCEPT !.op = "write"]
    /\ UNCHANGED <<params, seed, tick, nextId, resources, deathStats, window,
                   phase, given, twin, driver>>

\* the collaborator assigns to a field of an element of the array getResources
\* returned
WriteToResource ==
    /\ last.op = "getResources"
    /\ \E k \in 1..Len(resources), v \in Written :
          resources' = [resources EXCEPT ![k].amount = v]
    /\ last' = [last EXCEPT !.op = "write"]
    /\ UNCHANGED <<params, seed, tick, nextId, agents, deathStats, window,
                   phase, given, twin, driver>>

\* the collaborator assigns to a counter of the deaths of the object getStats
\* returned
WriteToStats ==
    /\ last.op = "getStats"
    /\ \E v \in {0, 7} : deathStats' = [deathStats EXCEPT !.starvation = v]
    /\ last' = [last EXCEPT !.op = "write"]
    /\ UNCHANGED <<params, seed, tick, nextId, agents, resources, window,
                   phase, given, twin, driver>>

InitQuery == StarveStart(QueryUpdates)

NextQuery ==
    \/ Update
    \/ GetAgents
    \/ GetResources
    \/ GetStatsCalled
    \/ WriteToAgent
    \/ WriteToResource
    \/ WriteToStats

SpecQuery == InitQuery /\ [][NextQuery]_vars

----------------------------------------------------------------------------
(* The driver.  The page's animation-frame callback reads the time scale of  *)
(* the engine and calls update() in a loop, for (i = 0; i < timeScale; i++): *)
(* once at 0.25, 0.5 and 1, twice at 2, four times at 4.  A frame is one     *)
(* action; last.updates counts the frames.  The engine is that of the run.   *)

\* rendered frames in one run of the model
FrameUpdates == 1

\* SimulationEngine.getParams: the parameters the engine was constructed with
GetParams(e) == e.params

\* the for loop of the callback from its i-th round on: the engines it can
\* leave, with the agents its update() calls removed
RECURSIVE DriverLoop(_, _, _, _)
DriverLoop(e, dead, i, timeScale) ==
    IF i * Milli >= timeScale THEN {[after |-> e, dead |-> dead]}
    ELSE UNION {DriverLoop(u.after, dead \cup Casualties(u.swept), i + 1, timeScale) :
                   u \in {v \in Updates(e) : Len(v.swept) <= MaxPopulation}}

\* startSimulation: update, the animation-frame callback
AnimationFrame ==
    /\ last.updates < last.budget
    /\ \E f \in DriverLoop(Engine, {}, 0, GetParams(Engine).timeScale) :
          /\ Store(f.after)
          /\ last' = [last EXCEPT !.op = "frame",
                                  !.updates = @ + 1,
                                  !.before = Ids(agents),
                                  !.born = f.after.nextId - nextId,
                                  !.dead = f.dead,
                                  !.matings = f.after.matings]
    /\ UNCHANGED <<phase, given, twin, driver>>

InitFrame == RunStart(FrameUpdates)

NextFrame == AnimationFrame

SpecFrame == InitFrame /\ [][NextFrame]_vars

----------------------------------------------------------------------------
(* startSimulation: the engine is constructed, its initializeEnvironment    *)
(* awaits the temperature, and the animation-frame callback is called at    *)
(* once and then in every frame.  The callback counts the frames in which   *)
(* getStats() reports a population of 0 and ends the run after the 61st in  *)
(* a row.                                                                   *)

\* animation frames in one run of the model
StartFrames == 62

\* of these, the frames that come after initializeEnvironment has finished
ReadyFrames == 2

StartConfigurations ==
    [initialPopulation : {1},
     resourceCapacity : {M(100)},
     birthRate : {500},
     timeScale : {500, Milli, 2 * Milli},
     resourceSpots : {1},
     resourceRegenerationRate : {0}]

\* startSimulation up to its call of update(): isRunning = true,
\* noPopulationTicks = 0
InitStart ==
    /\ given \in StartConfigurations
    /\ params = Constructed(given)
    /\ twin = NoTwin
    /\ driver = [isRunning |-> TRUE, noPopulationTicks |-> 0]
    /\ seed \in {SeedOf(now) : now \in Clocks}
    /\ window \in Windows
    /\ phase = "constructed"
    /\ tick = 0
    /\ nextId = 0
    /\ agents = <<>>
    /\ resources = <<>>
    /\ deathStats = NoDeaths
    /\ last = Fresh(StartFrames)

\* startSimulation: update, the animation-frame callback, with its count of
\* the frames without population
StartFrame ==
    /\ driver.isRunning
    /\ last.updates < last.budget
    /\ phase = "ready" => last.updates < last.settled + ReadyFrames
    /\ \E f \in DriverLoop(Engine, {}, 0, GetParams(Engine).timeScale) :
          /\ Store(f.after)
          /\ LET stats == GetStats(f.after)
                 n == IF stats.population = 0 THEN driver.noPopulationTicks + 1 ELSE 0
             IN  driver' = [isRunning |-> ~(stats.population = 0 /\ n > 60),
                            noPopulationTicks |-> n]
          /\ last' = [last EXCEPT !.op = "frame",
                                  !.updates = @ + 1,
                                  !.before = Ids(agents),
                                  !.born = f.after.nextId - nextId,
                                  !.dead = f.dead,
                                  !.matings = f.after.matings]
    /\ UNCHANGED <<phase, given, twin>>

\* the fetch of initializeEnvironment settles: not before startSimulation has
\* made its first call of update(), which follows the constructor in the same
\* task
FetchSettled == last.updates > 0 /\ InitializeEnvironment

NextStart == StartFrame \/ FetchSettled

SpecStart == InitStart /\ [][NextStart]_vars

----------------------------------------------------------------------------
(* Rest: an agent of the run that is resting, alone or in a crowd of        *)
(* RestCrowd other resting agents at the same point, more than 50 units     *)
(* from the resources.  The crowd is as stressed as an update() can leave   *)
(* it and starves in its third update; the agent itself rests until its     *)
(* energy has passed 80, or starves first.                                  *)

\* update() calls in the run of the resting agent
RestUpdates == 31

\* the agents around the resting one
RestCrowd == 5

\* the resting agent: its energy and its hunger
Resting(ts) ==
    [state : {"resting"}, age : {100 * ts}, hunger : {M(30), M(95)},
     energy : {0, M(19), M(77)}, stressLevel : {0, Strained(ts)}]

\* an agent of the crowd
Crowded(ts) ==
    [state |-> "resting", age |-> 100 * ts,
     hunger |-> M(StarvationLevel) - 3 * Scaled(HungerPerTick, ts),
     energy |-> 0, stressLevel |-> Strained(ts)]

InitRest ==
    /\ given \in RunConfigurations
    /\ params = Constructed(given)
    /\ twin = NoTwin
    /\ driver = NoDriver
    /\ seed = SeedOf(CHOOSE now \in Clocks : TRUE)
    /\ window = RunWindow
    /\ phase = "ready"
    /\ tick = LastTick(params.timeScale)
    /\ \E c \in Resting(params.timeScale), n \in {0, RestCrowd}, at \in {Near, Away},
          level \in Levels :
          /\ n > 0 => at = Away /\ level[1] > 0
          /\ resources = RunResources(params, level)
          /\ nextId = 101 + n
          /\ agents = <<RunAgent(100, "female", at, c, params.timeScale)>>
                         \o [k \in 1..n |->
                                RunAgent(100 + k, "male", at, Crowded(params.timeScale),
                                         params.timeScale)]
    /\ deathStats = [starvation |-> 0, oldAge |-> 100, stress |-> 0, total |-> 100]
    /\ last = Fresh(RestUpdates)

\* SimulationEngine.update for a population of up to RestCrowd + 1 agents,
\* with the history of the turns
UpdateCrowd ==
    /\ last.updates < last.budget
    /\ \E u \in Updates(Engine) :
          /\ Len(u.swept) <= RestCrowd + 1
          /\ Store(u.after)
          /\ last' = [last EXCEPT !.op = "update",
                                  !.updates = @ + 1,
                                  !.before = Ids(agents),
                                  !.born = u.after.nextId - nextId,
                                  !.dead = Casualties(u.swept),
                                  !.matings = u.after.matings,
                                  !.steps = u.after.steps]
    /\ UNCHANGED <<phase, given, twin, driver>>

\* what every update() of the run does: it is due, and it counts a tick
Ticked == last.updates < last.budget /\ tick' = tick + 1

\* the driver calls update() in every animation frame for as long as the run
\* goes on: the steps of the run are the update() calls, and one comes while
\* one is due
SpecRest == InitRest /\ [][UpdateCrowd]_vars /\ WF_tick(Ticked)

----------------------------------------------------------------------------
(* Three agents of the initial population in state mating, within 30 units  *)
(* of one another and within 5 of the resource, with energy 60 or 90.       *)

\* update() calls in the run of the three
TrioUpdates == 1

TrioStances ==
    {[state |-> "mating", energy |-> M(90), hunger |-> M(20), at |-> Beside, heading |-> <<0, P(1)>>],
     [state |-> "mating", energy |-> M(60), hunger |-> M(20), at |-> Near, heading |-> <<0, P(1)>>]}

TrioAgents(t, ts) ==
    {<<MatingAgent(0, v[1].sex, v[1].st, t, ts), MatingAgent(1, v[2].sex, v[2].st, t, ts),
       MatingAgent(2, v[3].sex, v[3].st, t, ts)>> :
         v \in [1..3 -> [sex : Sexes, st : TrioStances]]}

InitTrio ==
    /\ given \in MatingConfigurations
    /\ given.initialPopulation = 3
    /\ params = Constructed(given)
    /\ twin = NoTwin
    /\ driver = NoDriver
    /\ seed = SeedOf(CHOOSE now \in Clocks : TRUE)
    /\ window = RunWindow
    /\ phase = "ready"
    /\ tick \in MatingTicks
    /\ nextId = 3
    /\ \E level \in MatingLevels :
          resources = <<[NewResource(params, SpotA[1], SpotA[2]) EXCEPT !.amount = level]>>
    /\ agents \in TrioAgents(tick, params.timeScale)
    /\ deathStats = NoDeaths
    /\ last = Fresh(TrioUpdates)

SpecTrio == InitTrio /\ [][UpdateCrowd]_vars

----------------------------------------------------------------------------
(* findNearestResource on its own: an agent of the run, and up to           *)
(* MaxResources resources, each empty or not, at spots of which three are    *)
(* 1 unit from where the agent may stand.  last.found is what the call       *)
(* returned: the storage index of the resource, 0 for null.                  *)

\* findNearestResource calls in one run of the model
NearestCalls == 1

\* resources of the engine in these runs
MaxResources == 3

NearestSpots == {SpotA, SpotB, Near, <<P(99), P(100)>>, <<P(100), P(101)>>}

InitNearest ==
    /\ given \in RunConfigurations
    /\ given.timeScale = Milli
    /\ params = Constructed(given)
    /\ twin = NoTwin
    /\ driver = NoDriver
    /\ seed = SeedOf(CHOOSE now \in Clocks : TRUE)
    /\ window = RunWindow
    /\ phase = "ready"
    /\ tick = LastTick(params.timeScale)
    /\ nextId = 101
    /\ \E n \in 0..MaxResources :
          \E at \in [1..n -> NearestSpots], amount \in [1..n -> {0, M(5)}] :
              resources = [k \in 1..n |->
                              [NewResource(params, at[k][1], at[k][2])
                                   EXCEPT !.amount = amount[k]]]
    /\ \E at \in {Near, Beside} :
          agents = <<RunAgent(100, "female", at,
                              [state |-> "exploring", age |-> 100 * Milli,
                               hunger |-> M(80), energy |-> M(50), stressLevel |-> 0],
                              Milli)>>
    /\ deathStats = [starvation |-> 0, oldAge |-> 100, stress |-> 0, total |-> 100]
    /\ last = Fresh(NearestCalls)

\* SimulationEngine.findNearestResource(agent), called for an agent of the engine
FindNearestResourceCalled ==
    /\ last.updates < last.budget
    /\ \E k \in DOMAIN agents :
          last' = [last EXCEPT !.op = "findNearestResource",
                               !.updates = @ + 1,
                               !.found = FindNearestResource(Engine, agents[k].x,
                                                             agents[k].y)]
    /\ UNCHANGED <<params, seed, tick, nextId, agents, resources, deathStats, window,
                   phase, given, twin, driver>>

SpecNearest == InitNearest /\ [][FindNearestResourceCalled]_vars

----------------------------------------------------------------------------
(* Claims on the run *)

Agents == {agents[k] : k \in 1..Len(agents)}
Resources == {resources[k] : k \in 1..Len(resources)}
Updated == last.op = "update"

\* the ids of the agents the last update() pushed
BornIds == (nextId - last.born)..(nextId - 1)

\* C1 (as claimed): after every update(), at every supported time scale, every
\* agent has 0 <= energy <= 100, the agents that rested in it included.
C1_EnergyInRange ==
    Updated /\ params.timeScale \in SupportedTimeScales
        => \A a \in Agents : 0 <= a.energy /\ a.energy <= M(100)

\* C2: after every update() every agent left in the population has
\* 0 <= hunger <= 100 and 0 <= stressLevel <= 100.
C2_HungerStressInRange ==
    Updated => \A a \in Agents : /\ 0 <= a.hunger /\ a.hunger <= M(100)
                                 /\ 0 <= a.stressLevel /\ a.stressLevel <= M(100)

\* C2 witness: an update() after which an agent has eaten its hunger down to 0
\* and in which another has starved
C2_Witness ==
    /\ Updated
    /\ \E a \in Agents : a.hunger = 0
    /\ \E d \in last.dead : d.starved

\* C3: 0 <= amount <= maxAmount for every resource after every update().
C3_AmountInRange ==
    Updated => \A r \in Resources : 0 <= r.amount /\ r.amount <= r.maxAmount

\* C3 witness: an update() that regenerated a resource and in which agents took
\* all of it, while another resource is at its capacity
C3_Witness ==
    /\ Updated
    /\ \E r \in Resources : r.amount = 0 /\ r.maxAmount > 0
    /\ \E r \in Resources : r.amount = r.maxAmount /\ r.maxAmount > 0

\* C4: after every update() deaths.total = nextId - population.
C4_TotalIsCreatedMinusAlive ==
    Updated =>
        LET stats == GetStats(Engine)
        IN  stats.deaths.total = stats.births - stats.population

\* C4 witness: an update() with a birth and a death, after which agents live
C4_Witness ==
    /\ Updated
    /\ last.born > 0
    /\ deathStats.total > 0
    /\ Len(agents) > 0

\* C5: the population after an update() is the population before, minus the
\* agents the sweep found dead, plus the agents born in it.
C5_PopulationBalance ==
    Updated =>
        Len(agents) = Cardinality(last.before) - Cardinality(last.dead) + last.born

\* C5 witness: an update() with both a birth and a death
C5_Witness == Updated /\ last.born > 0 /\ last.dead # {}

\* C7: after every update() no agent left has age >= 2000, hunger >= 100 or
\* stressLevel >= 100, and every agent the update removed met one of the three
\* at the sweep.
C7_DeadAndOnlyDeadRemoved ==
    Updated =>
        /\ \A a \in Agents : /\ a.age < M(MaxAge)
                             /\ a.hunger < M(StarvationLevel)
                             /\ a.stressLevel < M(StressLimit)
        /\ (last.before \cup BornIds) \ Ids(agents) \subseteq {d.id : d \in last.dead}

\* C7 witness: an update() that removed an agent and kept another
C7_Witness ==
    /\ Updated
    /\ (last.before \cup BornIds) \ Ids(agents) # {}
    /\ Len(agents) > 0

\* the sweep of the update() that ends in the primed state removed the agent id
\* for its age
AgedOut(id) == \E d \in last'.dead : d.id = id /\ d.aged

\* the agents of age n
OfAge(n) == {a \in Agents : a.age = n}

\* C8 (as claimed): with timeScale = 1 update() does not remove for its age an
\* agent that is 1999 before it; an agent that is 2000 before it is removed and
\* deaths.oldAge goes up by exactly 1.
C8_AsClaimed ==
    [][params.timeScale = Milli =>
          /\ \A a \in OfAge(M(MaxAge) - Milli) : ~AgedOut(a.id)
          /\ \A a \in OfAge(M(MaxAge)) :
                 /\ a.id \notin Ids(agents')
                 /\ deathStats'.oldAge = deathStats.oldAge + 1]_vars

\* C8 (amended): with timeScale = 1 update() does not remove for its age an
\* agent that is 1998 before it; an agent that is 1999 before it is removed and
\* deaths.oldAge goes up by exactly 1 for each such agent.
C8_OldAgeBoundary ==
    [][params.timeScale = Milli =>
          /\ \A a \in OfAge(M(MaxAge) - 2 * Milli) : ~AgedOut(a.id)
          /\ \A a \in OfAge(M(MaxAge) - Milli) :
                 a.id \notin Ids(agents') /\ AgedOut(a.id)
          /\ deathStats'.oldAge =
                 deathStats.oldAge + Cardinality(OfAge(M(MaxAge) - Milli))]_vars

\* C8 witness: at timeScale = 1 an update() has removed an agent for its age
\* and the one before it has left an agent at 1999
C8_Witness ==
    /\ params.timeScale = Milli
    /\ Updated
    /\ last.updates = 2
    /\ last.dead # {} /\ \A d \in last.dead : d.aged /\ ~d.starved /\ ~d.stressed

\* C10 (as claimed): when the engine was constructed with
\* resourceRegenerationRate = 0, no update() increases the amount of a resource.
C10_NoRegenerationAtRateZero ==
    [][given.resourceRegenerationRate = 0 =>
          \A k \in 1..Len(resources) : resources'[k].amount <= resources[k].amount]_vars

\* the (agent id, x, y, state) snapshot of an engine
Snapshot(e) ==
    [k \in 1..Len(e.agents) |->
        <<e.agents[k].id, e.agents[k].x, e.agents[k].y, e.agents[k].state>>]

\* C6 (as claimed): two runs from the same seed and the same configuration
\* show the same (agent id, x, y, state) snapshot after each update().
C6_SameSeedSameRun ==
    phase = "ready" /\ twin.phase = "ready" => Snapshot(Engine) = Snapshot(twin.e)

\* nothing has been taken from a resource
Untouched == \A r \in Resources : r.amount = r.maxAmount

\* C9: at timeScale = 1 a lone agent that starts at hunger 80 and takes nothing
\* from a resource gains 0.2 hunger per update(), lives through 99 updates and
\* is removed by the 100th, which adds 1 to deaths.starvation.
C9_StarvesAtHundredthUpdate ==
    params.timeScale = Milli /\ Untouched =>
        /\ last.updates <= 99 =>
               /\ Len(agents) = 1
               /\ agents[1].hunger = M(80) + last.updates * 200
               /\ deathStats.starvation = 0
        /\ last.updates >= 100 =>
               /\ agents = <<>>
               /\ deathStats.starvation = 1
        /\ last.updates = 100 => \E d \in last.dead : d.id = 0 /\ d.starved

\* C9 witness: the 100th update() has removed the agent
C9_Witness ==
    /\ params.timeScale = Milli /\ Untouched
    /\ last.updates = 100
    /\ agents = <<>>
    /\ \E d \in last.dead : d.starved

----------------------------------------------------------------------------
(* Claims on mating *)

\* the configuration of the scenario: two agents, one resource of capacity
\* 100, birth rate 1, time scale 1
ScenarioConfiguration ==
    /\ given.initialPopulation = 2
    /\ given.resourceCapacity = M(100)
    /\ given.birthRate = Milli
    /\ given.timeScale = Milli
    /\ given.resourceSpots = 1

\* less than 5 units from the resource, the distance at which update() feeds
InReach(a) == Within(a.x, a.y, resources[1].x, resources[1].y, 5)

\* the two agents of the scenario: of opposite sex, both 'mating', less than
\* 30 units apart and both within reach of the resource
PairOutToMate ==
    /\ Len(agents) = 2
    /\ \A k \in 1..2 : agents[k].state = "mating" /\ InReach(agents[k])
    /\ agents[1].sex # agents[2].sex
    /\ Within(agents[1].x, agents[1].y, agents[2].x, agents[2].y, 30)

\* what the scenario expects of the update: three agents, stats.births
\* (nextId) 3, less in the resource
OffspringAndMeal ==
    /\ Len(agents') = 3
    /\ GetStats(Engine)'.births = 3
    /\ resources'[1].amount < resources[1].amount

Matings == {last.matings[n] : n \in 1..Len(last.matings)}

\* C12: every offspring is created from two distinct agents that, when it is
\* created, are both in state mating, differ in sex, are less than 30 units
\* apart, and of which the partner has energy above 30; every agent pushed by
\* an update() is the offspring of such a pair
C12_OffspringOfEligiblePair ==
    /\ \A m \in Matings :
          /\ m.initiator.id # m.partner.id
          /\ m.initiator.state = "mating" /\ m.partner.state = "mating"
          /\ m.initiator.sex # m.partner.sex
          /\ Within(m.initiator.x, m.initiator.y, m.partner.x, m.partner.y, 30)
          /\ m.partner.energy > M(30)
    /\ Updated =>
          /\ Len(last.matings) = last.born
          /\ \A a \in Agents :
                a.id \in BornIds =>
                    \E m \in Matings :
                        m.child = a.id /\ a.parentIds = <<m.initiator.id, m.partner.id>>

\* an update() of three agents has had one offspring, that of two of them; the
\* third, out to mate as well and as near, is of the sex of one of the parents
C12_Witness ==
    /\ Updated
    /\ Len(last.matings) = 1
    /\ \E a \in Agents :
          /\ a.id \in last.before
          /\ a.id \notin {last.matings[1].initiator.id, last.matings[1].partner.id}
          /\ a.sex = last.matings[1].initiator.sex
    /\ \E a \in Agents : a.id \in BornIds

\* C13 (as claimed): in one mating evaluation the partner is the first
\* eligible candidate in population order and one value is drawn: no
\* offspring comes of a later candidate after the draw for the first was not
\* below birthRate
C13_FirstCandidateOneDraw ==
    \A m \in Matings : m.chosen = m.candidates[1]

----------------------------------------------------------------------------
(* Claims on construction and initialization *)

\* C14 (as claimed): an engine is not made from parameters with a
\* resourceSpots or initialPopulation that is not positive: none comes to run
\* with them
C14_NonPositiveCountRejected ==
    given \in NonPositiveConfigurations => phase # "ready"

\* the first n positions the generator gives from seed s0 in window w
RECURSIVE Positions(_, _, _)
Positions(s0, w, n) ==
    IF n <= 0 THEN <<>>
    ELSE LET pos == GetRandomPosition(s0, w, 50)
         IN  <<[x |-> pos.x, y |-> pos.y]>> \o Positions(pos.seed, w, n - 1)

\* C15: whether the fetch of the temperature succeeds, fails or gives
\* malformed data, initializeEnvironment leaves resourceSpots resources and
\* initialPopulation agents, created once and in this order: the resources
\* are at the first positions of the generator and the agents at the next.
\* After a fetch that gave a temperature the positions are those of the seed
\* with the temperature folded in once; after one that failed or could not be
\* read, those of the seed of the construction.
C15_InitializedOnce ==
    last.op = "initialize" =>
        LET f == last.fetch
            spots == Max(0, params.resourceSpots)
            population == Max(0, params.initialPopulation)
            start == CASE f.outcome = "ok" -> SetTemperature(last.seed0, f.temperature)
                       [] f.outcome = "undefined" -> NotANumber
                       [] OTHER -> last.seed0
            drawn == Positions(start, window, spots + population)
        IN  /\ Len(resources) = spots
            /\ Len(agents) = population
            /\ nextId = population
            /\ \A k \in 1..spots :
                  resources[k].x = drawn[k].x /\ resources[k].y = drawn[k].y
            /\ \A k \in 1..population :
                  /\ agents[k].id = k - 1
                  /\ agents[k].x = drawn[spots + k].x
                  /\ agents[k].y = drawn[spots + k].y

\* initializeEnvironment has run after a fetch that gave a temperature, and
\* has created resources and agents
C15_Witness ==
    /\ last.op = "initialize"
    /\ last.fetch.outcome = "ok"
    /\ Len(resources) = 2
    /\ Len(agents) = 2

----------------------------------------------------------------------------
(* Claims on the queries *)

\* C16 (as claimed): what getAgents, getResources and getStats hand out are
\* copies or read-only views: a collaborator's assignment to what it was given
\* leaves the engine's agents, resources and death counters as they were
C16_CallersCannotWrite ==
    [][last'.op = "write" => UNCHANGED <<agents, resources, deathStats>>]_vars

----------------------------------------------------------------------------
(* Claims on update() *)

\* C17: an update() of an engine without agents leaves it without agents and
\* changes neither nextId nor a death counter: it adds 1 to the tick and
\* changes of the resources nothing but their amounts
C17_EmptyPopulationUpdate ==
    [][(agents = <<>> /\ last'.updates = last.updates + 1) =>
          /\ agents' = <<>>
          /\ nextId' = nextId
          /\ deathStats' = deathStats
          /\ tick' = tick + 1
          /\ UNCHANGED <<params, seed, window, phase>>
          /\ Len(resources') = Len(resources)
          /\ \A k \in 1..Len(resources) :
                resources' [k] = [resources[k] EXCEPT !.amount = resources'[k].amount]]_vars

\* two update() calls in a row have run on an engine whose two agents had
\* died: the resource has more than it had, the counters are as they were
C17_Witness ==
    /\ Updated
    /\ last.updates = 3
    /\ agents = <<>>
    /\ last.before = {}
    /\ nextId = 2
    /\ deathStats = [starvation |-> 0, oldAge |-> 2, stress |-> 0, total |-> 2]
    /\ resources[1].amount > M(40)

\* C18: ids come from a counter that only grows and are not used again, deaths
\* or not: at every moment the agents are in strictly increasing order of id
\* (no id twice) and every id is below nextId; a step never lowers nextId, and
\* an agent that is new after it has an id that was not below nextId before
C18_IdsIncreasingNeverReused ==
    /\ [](/\ \A k \in 1..(Len(agents) - 1) : agents[k].id < agents[k + 1].id
          /\ \A a \in Agents : 0 <= a.id /\ a.id < nextId)
    /\ [][/\ nextId' >= nextId
          /\ \A k \in 1..Len(agents') :
                agents'[k].id \in Ids(agents) \/ agents'[k].id >= nextId]_vars

\* an update() has removed an agent and pushed another, which lives
C18_Witness ==
    /\ Updated
    /\ last.dead # {}
    /\ \E a \in Agents : a.id \in BornIds /\ a.id \notin last.before

\* C19: an update() adds to each cause's counter the number of the agents
\* its sweep removed that met that cause, an agent that met two causes
\* counting for both, and adds to deaths.total the number of agents removed
C19_EveryCauseCountedOnce ==
    [][last'.updates = last.updates + 1 =>
          /\ deathStats'.starvation
                 = deathStats.starvation + Cardinality({c \in last'.dead : c.starved})
          /\ deathStats'.oldAge
                 = deathStats.oldAge + Cardinality({c \in last'.dead : c.aged})
          /\ deathStats'.stress
                 = deathStats.stress + Cardinality({c \in last'.dead : c.stressed})
          /\ deathStats'.total = deathStats.total + Cardinality(last'.dead)
          /\ \A c \in last'.dead : c.id \notin Ids(agents')]_vars

\* an update() has removed an agent that was 2000 old and had hunger 100 at
\* once
C19_Witness ==
    /\ Updated
    /\ \E c \in last.dead : c.starved /\ c.aged
    /\ deathStats.starvation >= 1
    /\ deathStats.oldAge >= 101

\* C20: no step of the engine lowers a death counter: starvation, oldAge,
\* stress and total after an update() are at least what they were before it
C20_CountersNeverDecrease ==
    [][/\ deathStats'.starvation >= deathStats.starvation
       /\ deathStats'.oldAge >= deathStats.oldAge
       /\ deathStats'.stress >= deathStats.stress
       /\ deathStats'.total >= deathStats.total]_vars

\* the counters have grown in an earlier update() of this engine and were left
\* as they were by the last, in which no agent died
C20_Witness ==
    /\ Updated
    /\ last.updates >= 2
    /\ last.dead = {}
    /\ deathStats.total > 100
    /\ deathStats.starvation + deathStats.oldAge > 100

----------------------------------------------------------------------------
(* Claims on the driver *)

\* C21 (as claimed): the speed setting is a pure multiplier of simulated time:
\* in one rendered frame every agent that lives through it ages by timeScale
\* units (4 at the 4x setting, 2 at 2x), timeScale times the ageing at 1x.
C21_AgesByTimeScalePerFrame ==
    [][last'.op = "frame" =>
          \A k \in DOMAIN agents, n \in DOMAIN agents' :
              agents'[n].id = agents[k].id =>
                  agents'[n].age = agents[k].age + params.timeScale]_vars

----------------------------------------------------------------------------
(* Claims on the turn of an agent in update().  last.steps holds the turns  *)
(* of the last update(), in the order they were taken.                      *)

Turns == {last.steps[n] : n \in DOMAIN last.steps}

\* the agent is within its first GraceTicks ticks in the tick of the last update
InGrace(a) == a.birthTick # 0 /\ tick - a.birthTick < GraceTicks

\* C22 (as claimed): the guards of an agent in state exploring (past its
\* newborn window) are taken in priority order: hunger > 70 and a non-empty
\* resource -> eating, targeting the nearest one; otherwise energy < 20 ->
\* resting; otherwise hunger < 50 and energy > 50 -> mating; otherwise it stays
\* exploring.  An agent with hunger > 70, energy < 20 and no non-empty resource
\* becomes resting.
C22_ExploringGuardsInPriority ==
    last.op = "update" =>
        \A s \in Turns :
            (s.decayed.state = "exploring" /\ ~InGrace(s.decayed)) =>
                IF s.decayed.hunger > M(70) /\ s.nearest # 0
                THEN /\ s.evaluated.state = "eating"
                     /\ s.evaluated.targetX = resources[s.nearest].x
                     /\ s.evaluated.targetY = resources[s.nearest].y
                ELSE IF s.decayed.energy < M(20)
                THEN s.evaluated.state = "resting"
                ELSE IF s.decayed.hunger < M(50) /\ s.decayed.energy > M(50)
                THEN s.evaluated.state = "mating"
                ELSE s.evaluated.state = "exploring"

\* C23 (as claimed): an eating agent reverts to exploring once its hunger is
\* below 30: after its state evaluation in an update() no agent is in state
\* eating with hunger < 30.
C23_NoEatingBelowThirty ==
    last.op = "update" =>
        \A s \in Turns : ~(s.evaluated.state = "eating" /\ s.evaluated.hunger < M(30))

\* C24 (as claimed): an eating agent whose targeted resource a competitor has
\* emptied stays eating and is retargeted in the next update(): when the
\* resource it targets is still empty in its turn and it is eating after the
\* turn, its target is then the nearest resource with amount > 0.
C24_RetargetedNextTick ==
    [][last'.op = "update" =>
          \A k \in DOMAIN agents, r \in DOMAIN resources, n \in DOMAIN last'.steps :
              LET a == agents[k]
                  s == last'.steps[n]
              IN  (/\ a.state = "eating"
                   /\ a.targetX = resources[r].x /\ a.targetY = resources[r].y
                   /\ resources[r].amount = 0
                   /\ s.id = a.id
                   /\ s.amounts[r] = 0
                   /\ s.offered # 0
                   /\ s.done.state = "eating")
                  => /\ s.done.targetX = resources[s.offered].x
                     /\ s.done.targetY = resources[s.offered].y]_vars

\* C25 (as claimed): when a mating evaluation has an offspring, at its end each
\* parent has paid max(0, energy - 10 * timeScale), holds the other parent's and
\* the offspring's id in its socialConnections, and is eating with its nearest
\* non-empty resource as target if there is one, exploring otherwise.
C25_ParentsAfterReproduction ==
    last.op = "update" =>
        \A s \in Turns, m \in Matings :
            (s.couple # <<>> /\ m.initiator.id = s.id) =>
                \A p \in 1..2 :
                    LET was == IF p = 1 THEN m.initiator ELSE m.partner
                        other == IF p = 1 THEN m.partner ELSE m.initiator
                        now == s.couple[p].agent
                        r == s.couple[p].nearest
                    IN  /\ now.id = was.id
                        /\ now.energy = Max(0, was.energy - Scaled(M(10), params.timeScale))
                        /\ {other.id, m.child} \subseteq now.socialConnections
                        /\ IF r # 0
                           THEN /\ now.state = "eating"
                                /\ now.targetX = resources[r].x
                                /\ now.targetY = resources[r].y
                           ELSE now.state = "exploring"

\* C26 (as claimed): the newborn window (fewer than 60 ticks since birthTick)
\* is presentation only: in it the state of an agent is evaluated as outside
\* it.  In the window as outside it, an exploring agent turns to eating when
\* its hunger is over 70 and a resource has something left, to resting when
\* its energy is under 20, to mating when its hunger is under 50 and its
\* energy over 50; an eating agent within 5 units of its nearest non-empty
\* resource takes up to 20 from it and turns to exploring when that leaves its
\* hunger under 30; a resting agent recovers energy.
C26_GraceIsPresentationOnly ==
    last.op = "update" =>
        \A s \in Turns :
            InGrace(s.decayed) =>
                LET a == s.decayed
                    b == s.evaluated
                    InReach5 == /\ s.nearest # 0
                                /\ Within(a.x, a.y, resources[s.nearest].x,
                                          resources[s.nearest].y, 5)
                    eaten == Max(0, a.hunger - Min(s.amounts[s.nearest], M(20)))
                IN  /\ (a.state = "exploring" /\ a.hunger > M(70) /\ s.nearest # 0)
                           => b.state = "eating"
                    /\ (a.state = "exploring" /\ a.hunger <= M(70) /\ a.energy < M(20))
                           => b.state = "resting"
                    /\ (a.state = "exploring" /\ a.hunger < M(50) /\ a.energy > M(50))
                           => b.state = "mating"
                    /\ (a.state = "eating" /\ InReach5)
                           => /\ b.hunger = eaten
                              /\ b.state = IF eaten < M(30) THEN "exploring" ELSE "eating"
                    /\ a.state = "resting" => b.energy = Rested(a.energy)

\* C27 (as claimed): stress decays only when no crowding is recorded: in an
\* update() in which another agent is within 50 units of an agent, its
\* stressLevel is raised (0.01 for each such agent, capped at 100) and not
\* lowered by the decay; with none within 50 units it is lowered by
\* 0.2 * timeScale, floored at 0.
C27_NoDecayWhenCrowded ==
    last.op = "update" =>
        \A s \in Turns :
            IF s.nearby > 0
            THEN s.done.stressLevel = Min(M(100), s.decayed.stressLevel + s.nearby * 10)
            ELSE s.done.stressLevel =
                     Max(0, s.decayed.stressLevel - Scaled(200, params.timeScale))

C29_FirstComeInStorageOrder ==
    [][last'.op = "update" =>
          /\ Len(last'.steps) = Len(agents)
          /\ \A n \in DOMAIN agents :
                LET s == last'.steps[n]
                    r == s.offered
                    take == Min(s.found, Scaled(M(15), params.timeScale))
                IN  /\ s.id = agents[n].id
                    /\ n > 1 => s.amounts = last'.steps[n - 1].left
                    /\ n = Len(agents) => s.left = [k \in DOMAIN resources' |->
                                                       resources'[k].amount]
                    /\ \A k \in DOMAIN s.left : 0 <= s.left[k] /\ s.left[k] <= s.amounts[k]
                    /\ (r # 0 /\ Within(s.mated.x, s.mated.y,
                                        resources[r].x, resources[r].y, 5))
                           => /\ s.found <= s.amounts[r]
                              /\ s.left[r] = s.found - take
                              /\ s.fed.hunger = Max(0, s.mated.hunger - take)
          /\ \A i \in DOMAIN agents, j \in DOMAIN agents,
                i2 \in DOMAIN agents', j2 \in DOMAIN agents' :
                (agents[i].id = agents'[i2].id /\ agents[j].id = agents'[j2].id /\ i < j)
                    => i2 < j2]_vars

\* C29 witness: an update() in which two agents were within 5 units of the same
\* resource: the earlier in the list took all that was left of it, the later
\* found it empty
C29_Witness ==
    /\ last.op = "update"
    /\ \E n \in DOMAIN last.steps, k \in DOMAIN last.steps, r \in DOMAIN resources :
          LET s == last.steps[n]
              t == last.steps[k]
          IN  /\ n < k
              /\ s.offered = r /\ s.found > 0 /\ s.left[r] = 0
              /\ Within(s.mated.x, s.mated.y, resources[r].x, resources[r].y, 5)
              /\ Within(t.mated.x, t.mated.y, resources[r].x, resources[r].y, 5)
              /\ t.amounts[r] = 0 /\ t.offered # r
              /\ \E a \in Agents : a.id = s.id
              /\ \E a \in Agents : a.id = t.id

----------------------------------------------------------------------------
(* Claims on findNearestResource *)

\* the resources (storage indices) with something left
NonEmpty == {k \in DOMAIN resources : resources[k].amount > 0}

\* the square of the distance from the agent to resource k
Away2(k) == Dist2(agents[1].x, agents[1].y, resources[k].x, resources[k].y)

\* C30: findNearestResource returns a resource with amount > 0 at minimal
\* distance from the agent, the first in storage order of those at that
\* distance, and returns none exactly when no resource has amount > 0.
C30_NearestNonEmptyFirstOnTies ==
    last.op = "findNearestResource" =>
        /\ last.found = 0 <=> NonEmpty = {}
        /\ last.found # 0 =>
              /\ last.found \in NonEmpty
              /\ \A k \in NonEmpty :
                    /\ Away2(last.found) <= Away2(k)
                    /\ Away2(last.found) = Away2(k) => last.found <= k

\* C30 witness: a call that found the first of two non-empty resources at the
\* same distance, behind an empty one that is nearer
C30_Witness ==
    /\ last.op = "findNearestResource"
    /\ Len(resources) = 3
    /\ resources[1].amount = 0 /\ Away2(1) < Away2(2)
    /\ NonEmpty = {2, 3}
    /\ Away2(2) = Away2(3) /\ <<resources[2].x, resources[2].y>> # <<resources[3].x, resources[3].y>>
    /\ last.found = 2

----------------------------------------------------------------------------
(* Claims on rest and stress *)

\* the agent with this id is in the population and resting
RestingNow(id) == \E a \in Agents : a.id = id /\ a.state = "resting"

\* C31: a resting agent gains 3 energy in its state evaluation, turns to
\* exploring in the first tick in which its energy exceeds 80 after that gain
\* and not before, and does not move in a tick whose state evaluation leaves
\* it resting; and every resting agent eventually is exploring again or has
\* been removed by the mortality sweep.
C31_RestingRecovers ==
    /\ [](\A s \in Turns :
             s.decayed.state = "resting" =>
                 /\ s.evaluated.energy = s.decayed.energy + M(3)
                 /\ s.evaluated.state
                        = IF s.evaluated.energy > M(80) THEN "exploring" ELSE "resting"
                 /\ s.evaluated.state = "resting"
                        => <<s.moved.x, s.moved.y>> = <<s.decayed.x, s.decayed.y>>)
    /\ \A id \in 100..(100 + RestCrowd) :
          RestingNow(id) ~>
              \/ \E a \in Agents : a.id = id /\ a.state = "exploring"
              \/ id \notin Ids(agents)

\* C31 witness: an agent that has rested for 30 updates leaves its rest
C31_Witness ==
    /\ Updated /\ last.updates >= 30
    /\ \E s \in Turns :
          /\ s.decayed.state = "resting" /\ s.decayed.energy <= M(80)
          /\ s.evaluated.state = "exploring"
          /\ \E a \in Agents : a.id = s.id

----------------------------------------------------------------------------
(* Claims on birth, age and the count of the dead *)

\* C36: the agents born in an update() are the last of the population after
\* it, in the order of their ids, none removed by its sweep, each untouched
\* by it: age 0, hunger 50, energy 100, stressLevel 0.
C36_NewbornUntouchedInBirthTick ==
    Updated =>
        /\ last.born <= Len(agents)
        /\ \A k \in 1..last.born :
              LET a == agents[Len(agents) - last.born + k]
              IN  /\ a.id = nextId - last.born + k - 1
                  /\ a.birthTick = tick
                  /\ a.age = 0 /\ a.hunger = M(50) /\ a.energy = M(100)
                  /\ a.stressLevel = 0

\* C36 witness: an update() pushed an agent behind one that took its turn
C36_Witness ==
    /\ Updated /\ last.born > 0
    /\ agents[Len(agents)].id = nextId - 1
    /\ \E k \in 1..(Len(agents) - last.born) :
          agents[k].id \in last.before /\ agents[k].age > 0

\* the updates an agent lives through at most: ceil(2000 / timeScale)
UpdatesToLive == (M(MaxAge) + params.timeScale - 1) \div params.timeScale

\* C37: an agent has aged by timeScale in every update() after the tick of its
\* creation, and is in the population for fewer than ceil(2000 / timeScale)
\* updates after it.
C37_AgesEveryTickUntilRemoved ==
    \A a \in Agents :
        /\ a.age = (tick - a.birthTick) * params.timeScale
        /\ tick - a.birthTick < UpdatesToLive

\* C37 witness: the agent created in the second tick was removed for its age
\* in the update() ceil(2000 / timeScale) ticks later, neither starved nor
\* stressed
C37_Witness ==
    /\ Updated /\ last.updates = 2
    /\ tick = 2 + UpdatesToLive
    /\ \E d \in last.dead : d.aged /\ ~d.starved /\ ~d.stressed

\* C39: after every update(), deaths.total is at most the sum of the three
\* counters of the causes.
C39_TotalWithinCauses ==
    Updated =>
        deathStats.total
            <= deathStats.starvation + deathStats.oldAge + deathStats.stress

\* C39 witness: an update() removed an agent that starved before its time,
\* and every agent removed so far is counted under exactly one cause
C39_Witness ==
    /\ Updated
    /\ \E d \in last.dead : d.starved /\ ~d.aged
    /\ deathStats.total = deathStats.starvation + deathStats.oldAge + deathStats.stress

----------------------------------------------------------------------------
(* Claims on targets and on leaving the mating state *)

\* C40 (as claimed): after every update() only agents in state eating have a
\* movement target: every exploring, mating or resting agent has targetX and
\* targetY null.
C40_TargetOnlyWhileEating ==
    Updated =>
        \A a \in Agents :
            a.state # "eating" => a.targetX = Null /\ a.targetY = Null

\* C32: an agent in state mating leaves it only with an offspring, in its own
\* mating evaluation or before its turn as the partner another agent chose,
\* or by abandoning the search in its own mating evaluation (to exploring).
\* Its state evaluation and its movement leave it mating whatever its hunger
\* and energy, and an evaluation without offspring leaves it mating or
\* abandoning and changes no other agent.
C32_LeavesMatingByOffspringOrAbandon ==
    [][last'.op = "update" =>
          \A k \in DOMAIN agents :
              agents[k].state = "mating" =>
                  LET id == agents[k].id
                      chosen == \E n \in DOMAIN last'.matings :
                                    last'.matings[n].partner.id = id
                  IN  \A n \in DOMAIN last'.steps :
                          last'.steps[n].id = id =>
                              LET s == last'.steps[n]
                              IN  /\ s.decayed.state # "mating" => chosen
                                  /\ s.decayed.state = "mating" =>
                                        /\ s.evaluated.state = "mating"
                                        /\ s.moved.state = "mating"
                                        /\ s.couple = <<>> =>
                                               s.mated.state \in {"mating", "exploring"}
                                        /\ s.done.state = s.mated.state
                                  /\ \A j \in DOMAIN agents' :
                                        (agents'[j].id = id
                                             /\ agents'[j].state # s.done.state) => chosen]_vars

\* C32 witness: a mating agent low on energy and hungry, with something to eat
\* in reach, found no mate in its turn and is still mating after the update
C32_Witness ==
    /\ Updated
    /\ \E s \in Turns :
          /\ s.decayed.state = "mating"
          /\ s.decayed.energy < M(30) /\ s.decayed.hunger > M(70)
          /\ s.nearest # 0
          /\ s.couple = <<>>
          /\ \E a \in Agents : a.id = s.id /\ a.state = "mating"

\* C38 (as claimed): an agent that pursues a target arrives: at every
\* supported time scale and at both speeds, each step of an agent that is not
\* resting towards a target 2 units or more away leaves it nearer to the
\* target than it was, until it is within 2 units and the target is cleared.
\* (A step that does not cannot be made up for: it went across the target to a
\* point as far beyond it, from where the next step leads back.)
C38_PursuitArrives ==
    \A s \in Turns :
        LET a == s.evaluated
        IN  (/\ a.state # "resting"
             /\ a.targetX # Null /\ a.targetY # Null
             /\ Dist2(a.x, a.y, a.targetX, a.targetY) >= P(2) * P(2))
                => Dist2(s.moved.x, s.moved.y, a.targetX, a.targetY)
                       < Dist2(a.x, a.y, a.targetX, a.targetY)

----------------------------------------------------------------------------
(* Claims on startSimulation *)

\* C34 (as claimed): the driver ends the run (isRunning = false, population
\* extinct) only when the engine has created its initial population and no
\* agent is left; it never ends it while initializeEnvironment still awaits
\* the fetch.
C34_EndsOnlyAfterExtinction ==
    [][(driver.isRunning /\ ~driver'.isRunning)
           => (phase = "ready" /\ nextId >= params.initialPopulation /\ agents' = <<>>)]_vars

----------------------------------------------------------------------------
(* Claims on the matings of one update() *)

\* C35 (as claimed): no agent is a parent of two offspring of the same
\* update(): the parents of any two createAgent calls of one update() are four
\* different agents.
C35_OneOffspringPerUpdate ==
    Updated =>
        \A m, n \in DOMAIN last.matings :
            m # n =>
                {last.matings[m].initiator.id, last.matings[m].partner.id}
                    \cap {last.matings[n].initiator.id, last.matings[n].partner.id} = {}

============================================================================
